---- MODULE Spec2Model ----
(***************************************************************************)
(* A model of the reactivity engine (Dep, Observer, Watcher, scheduler)    *)
(* and of the virtual-tree patch algorithm of the repository.              *)
(*                                                                         *)
(* The program is single threaded: a handler (a reactive write, a flush of *)
(* the scheduler, one patch) runs to completion before the next one        *)
(* starts, so every action below is the whole handler, computed by         *)
(* operators over a record h that holds the state the handler works on.    *)
(***************************************************************************)
EXTENDS Integers, Sequences, FiniteSets, TLC

(***************************************************************************)
(* Bounds of the model.                                                    *)
(***************************************************************************)
\* how many notifications a queued watcher may collect before the flush runs
MaxWrites == 2
\* the longest list of sibling nodes handed to the patch
MaxLen == 3
\* the longest observed array
MaxItems == 2
\* the circuit-breaker threshold of the scheduler, scaled down
MAX_UPDATE_COUNT == 2

(***************************************************************************)
(* Values.  A field holds a primitive or a reference to a plain object.    *)
(* All values are strings so that they can be compared.                    *)
(***************************************************************************)
NaN == "NaN"
undefined == "undefined"
Objs == {"o1"}
Prims == {"0", "1", NaN}
Values == Prims \cup Objs
Fields == {"a", "b", "c"}
\* the values written to each field: a and c hold counts, b holds anything
ValuesOf(f) == IF f = "b" THEN Values ELSE {"0", "1"}
\* One Dep per reactive field (named by the field) and one per Observer
\* (named by the observed object).
\* Observed collections: an array, the plain objects put into it, and the
\* keys that Vue.set and Vue.delete add to and remove from a plain object.
Arrays == {"arr"}
ItemObjs == {"e1", "e2"}
\* the objects handed to Object.freeze before they are stored
Frozen == {"e2"}
PropKeys == {"k1", "k2"}
\* the root data object of the component, and the component itself
RootData == "data"
Vm == "vm"
AllObjs == Objs \cup Arrays \cup ItemObjs
absent == "absent"
DepIds == Fields \cup AllObjs \cup {RootData}
NoOb == "none"

\* idxInOld before the lookup is made
NotCalled == -1

\* The collections of the value graphs handed to traverse: the first is the
\* value, the last one was handed to Object.freeze.
TvNodes == {"n1", "n2", "n3"}
TvRoot == "n1"
TvFrozen == {"n3"}

\* Watchers, by id: ids are given in creation order.
Watchers == 1..4
\* lazy: computed watcher; sync: user watcher with sync: true
IsLazy(w) == w = 1
IsSync(w) == w = 3
IsRender(w) == w = 4

\* The evaluators handed to the watchers: what an evaluator reads, in order,
\* in a given state of the data.
Getters == {"aab_or_c", "b", "ca", "a_throws", "a_k_b", "a_k", "a", "c"}
GetterChoices(w) ==
  CASE w = 1 -> {"ca"}
    [] w = 2 -> {"b", "aab_or_c"}
    [] w = 3 -> {"aab_or_c"}
    [] OTHER -> {"aab_or_c", "ca"}
\* in the reads of an evaluator, the read of the computed property vm.k,
\* which watcher 1 backs
Computed == "k"
ReadsOf(g, v) ==
  CASE g = "aab_or_c" -> <<"a", "a">> \o (IF v["a"] = "0" THEN <<"b">> ELSE <<"c">>)
    [] g = "b" -> <<"b">>
    [] g = "a_throws" -> <<"a">>
    [] g = "a" -> <<"a">>
    [] g = "c" -> <<"c">>
    [] g = "a_k_b" -> <<"a", Computed, "b">>
    [] g = "a_k" -> <<"a", Computed>>
    [] OTHER -> <<"c", "a">>

\* user: the watchers made by $watch
IsUser(w) == w \in {2, 3}
\* what a callback does: nothing, throw, or write the other value to field c
CbKinds == {"noop", "throw", "toggle", "unwatch"}
NoWatcher == 0

VARIABLES
  \* ---- observer/index.js: defineReactive closures and Observers
  val,        \* val[f]: the value stored for field f
  childOb,    \* childOb[f]: the Observer (named by its object) of val[f], or NoOb
  ob,         \* the objects that carry an Observer (__ob__)
  \* ---- dep.js
  subs,       \* subs[d]: the subscriber list of Dep d
  targetStack,\* the stack of watchers being evaluated; Dep.target is its top
  \* ---- watcher.js
  getter,     \* getter[w]: the evaluator of watcher w
  deps, newDeps, depIds, newDepIds,
  value, dirty, active,
  \* ---- scheduler
  queue, has, waiting, flushing,
  \* ---- the native tree of the mounted component: the text of its root
  elmText,
  \* ---- history, for stating the properties
  updCalls,   \* updCalls[w]: calls of w.update() made by the last action
  getCalls,   \* getCalls[w]: evaluations of w's getter made by the last action
  cbCalls,    \* cbCalls[w]: calls of w's callback made by the last action
  reading,    \* reading[w]: the Deps read so far by the evaluation in progress
  lastRead,   \* lastRead[w]: the Deps w's getter read in its latest evaluation
  updSince,   \* updSince[w]: update() calls on a queued watcher since the last flush
  lastAct,    \* the last action taken
  \* ---- vdom/patch.js and the native tree it works on
  vnode,      \* vm._vnode: the tree rendered last, its handles (elm) filled in
  staticTree, \* vm._staticTrees[0]: the cached tree of renderStatic
  dom,        \* dom[e]: the native children of handle e, in order
  plog,       \* the adapter calls and hooks of the last patch, in order
  prevVnode,  \* history: vm._vnode as it was when the last patch began
  isDestroyed,\* vm._isDestroyed
  \* ---- a call of sameVnode(a, b)
  svA, svB,   \* the two nodes handed to sameVnode
  svRes,      \* what the last call returned, "none" before the first call
  \* ---- traverse.js: traverse(val) of the value graph rooted at TvRoot
  tvKids,     \* tvKids[n]: the elements or the values of the keys of collection n
  tvOb,       \* the collections that have an Observer (__ob__)
  tvStack,    \* the calls of _traverse in progress: collection and index i
  tvSeen,     \* seenObjects: the collections whose Dep id was added
  tvVisits,   \* history: tvVisits[n]: how often the elements of n were walked
  \* ---- patch.js: the lookup of newStartVnode among the old children
  lkOld,      \* oldCh
  lkNode,     \* newStartVnode
  lkStart,    \* oldStartIdx, counted from 1
  lkEnd,      \* oldEndIdx, counted from 1
  lkRes,      \* idxInOld, 0 for undefined, NotCalled before the lookup
  \* ---- patch.js: the while loop of updateChildren, one iteration at a time
  dfU,        \* the locals of updateChildren: lists, cursors, oldKeyToIdx
  dfParent,   \* parentElm
  dfIters,    \* history: the iterations begun
  dfState,    \* "idle", "loop", "ended" (the loop was left), "threw"
  \* ---- patch.js: removeAndInvokeRemoveHook and the callback of createRmCb
  rmP,          \* the native tree and the adapter operations done to it
  rmElm,        \* childElm of the callback, NoElm before a removal
  rmListeners,  \* remove.listeners
  rmRegistered, \* history: the listeners registered with the callback
  rmCalls,      \* history: the invocations of the callback
  rmOwed,       \* the listeners that hold the callback and have not called it
  \* ---- lifecycle.js, watcher.js: a tree of components is mounted
  mtParent,     \* the placeholder's owner: mtParent[c] renders c, NoVm for the root
  mtOthers,     \* mtOthers[c]: the computed and user watchers initState makes for c
  mtUid,        \* uid of watcher.js
  mtRenderId,   \* mtRenderId[c]: vm._watcher.id, 0 before the watcher is made
  mtStack,      \* the components whose render watcher is in its first get()
  mtCreated,    \* history: the ids of the watchers, in creation order
  \* ---- lifecycle.js: a tree of instances that are created, activated,
  \* ---- deactivated and destroyed
  lfParent,     \* lfParent[c]: vm.$parent of instance c, NoVm for the root
  lfOpts,       \* the options: the instances kept alive, the hook that calls $destroy
  lf,           \* the fields of the instances and the hooks the last action called
  \* ---- components/keep-alive.js: one <keep-alive> and the instances it caches
  kaCache,      \* this.cache: kaCache[key] is the cached placeholder, or NoVnode
  kaKeys,       \* this.keys
  kaVnode,      \* this._vnode: the placeholder rendered last, or NoVnode
  kaProps,      \* the props max, include and exclude
  kaMade,       \* how many component instances were made
  kaDead,       \* the instances that were destroyed ($destroy)
  kaSeen,       \* history: the cached keys, the one rendered longest ago first
  kaLast,       \* history: the last operation and the cache entries it dropped
  \* ---- observer/index.js, observer/array.js: observed collections
  items,      \* items[a]: the elements of array a, in order
  props,      \* props[o][k]: the value of key k of plain object o, or absent
  reactiveKeys, \* reactiveKeys[o]: the keys of o defined by defineReactive
  vmCount,    \* vmCount[o]: Observer.vmCount of the Observer of o
  notifyCalls,\* history: notifyCalls[d]: calls of d.notify() by the last action
  warned,     \* history: calls of warn() by the last action
  \* ---- callbacks, errors and the run of a flush
  cbKind,     \* cbKind[w]: what the callback of watcher w does
  sync,       \* the watchers made with options.sync
  errLog,     \* history: the calls of handleError by the last action, in order
  runLog,     \* history: the before hooks and run() calls of the last flush
  diag,       \* history: the watchers named by the loop diagnostic of the last flush
  thrown      \* history: the watcher whose exception left the last action

rxVars == <<val, childOb, ob, subs, targetStack, getter, deps, newDeps, depIds,
            newDepIds, value, dirty, active, queue, has, waiting, flushing,
            elmText, updCalls, getCalls, cbCalls, reading, lastRead,
            updSince, lastAct>>

pVars == <<vnode, staticTree, dom, plog, prevVnode, isDestroyed>>

svVars == <<svA, svB, svRes>>

\* the variables the reactivity engine and the renderer leave alone
obsVars == <<items, props, reactiveKeys, vmCount, notifyCalls, warned>>

schedVars == <<cbKind, sync, errLog, runLog, diag, thrown>>

tvVars == <<tvKids, tvOb, tvStack, tvSeen, tvVisits>>

lkVars == <<lkOld, lkNode, lkStart, lkEnd, lkRes>>

dfVars == <<dfU, dfParent, dfIters, dfState>>

rmVars == <<rmP, rmElm, rmListeners, rmRegistered, rmCalls, rmOwed>>

mtVars == <<mtParent, mtOthers, mtUid, mtRenderId, mtStack, mtCreated>>

lfVars == <<lfParent, lfOpts, lf>>

kaVars == <<kaCache, kaKeys, kaVnode, kaProps, kaMade, kaDead, kaSeen, kaLast>>

oVars == <<svVars, tvVars, lkVars, dfVars, rmVars, mtVars, lfVars, kaVars, obsVars, schedVars>>

vars == <<rxVars, pVars, oVars>>

\* The state a handler works on.
Rx ==
  [val |-> val, childOb |-> childOb, ob |-> ob, subs |-> subs,
   targetStack |-> targetStack, getter |-> getter, deps |-> deps,
   newDeps |-> newDeps, depIds |-> depIds, newDepIds |-> newDepIds,
   value |-> value, dirty |-> dirty, active |-> active, queue |-> queue,
   has |-> has, waiting |-> waiting, flushing |-> flushing,
   elmText |-> elmText, updCalls |-> updCalls, getCalls |-> getCalls,
   cbCalls |-> cbCalls, reading |-> reading, lastRead |-> lastRead,
   updSince |-> updSince,
   lastAct |-> lastAct, ret |-> undefined,
   items |-> items, props |-> props, reactiveKeys |-> reactiveKeys,
   vmCount |-> vmCount, notifyCalls |-> notifyCalls, warned |-> warned,
   cbKind |-> cbKind, sync |-> sync, errLog |-> errLog, runLog |-> runLog,
   diag |-> diag,
   thrown |-> thrown, circular |-> [w \in Watchers |-> 0],
   isDestroyed |-> isDestroyed]

Install(h) ==
  /\ val' = h.val /\ childOb' = h.childOb /\ ob' = h.ob /\ subs' = h.subs
  /\ targetStack' = h.targetStack /\ getter' = h.getter /\ deps' = h.deps
  /\ newDeps' = h.newDeps /\ depIds' = h.depIds /\ newDepIds' = h.newDepIds
  /\ value' = h.value /\ dirty' = h.dirty /\ active' = h.active
  /\ queue' = h.queue /\ has' = h.has /\ waiting' = h.waiting
  /\ flushing' = h.flushing /\ elmText' = h.elmText
  /\ updCalls' = h.updCalls /\ getCalls' = h.getCalls /\ cbCalls' = h.cbCalls
  /\ reading' = h.reading /\ lastRead' = h.lastRead
  /\ updSince' = h.updSince /\ lastAct' = h.lastAct

Zero == [w \in Watchers |-> 0]

\* A handler begins: the per-action history is reset.
Begin(h) ==
  [h EXCEPT !.updCalls = Zero, !.getCalls = Zero, !.cbCalls = Zero,
            !.notifyCalls = [d \in DepIds |-> 0], !.warned = 0,
            !.errLog = <<>>, !.runLog = <<>>, !.diag = {}, !.thrown = NoWatcher]

Range(s) == {s[i] : i \in DOMAIN s}

\* F(e), with e evaluated once
Once(F(_), e) == CHOOSE r \in {F(x) : x \in {e}} : TRUE
Count(x, s) == Cardinality({i \in DOMAIN s : s[i] = x})

(***************************************************************************)
(* dep.js                                                                  *)
(***************************************************************************)
\* remove(arr, item): drops the first occurrence of item
RemoveFirst(s, x) ==
  IF x \in Range(s)
    THEN LET i == CHOOSE k \in DOMAIN s : s[k] = x /\ \A j \in 1..(k - 1) : s[j] # x
         IN  SubSeq(s, 1, i - 1) \o SubSeq(s, i + 1, Len(s))
    ELSE s

AddSub(h, d, w) == [h EXCEPT !.subs[d] = Append(@, w)]

RemoveSub(h, d, w) == [h EXCEPT !.subs[d] = RemoveFirst(@, w)]

PushTarget(h, w) == [h EXCEPT !.targetStack = Append(@, w)]

PopTargetKeeps(h) == h

PopTarget(h) == [h EXCEPT !.targetStack = SubSeq(@, 1, Len(@) - 1)]

HasTarget(h) == h.targetStack # <<>>
Target(h) == h.targetStack[Len(h.targetStack)]

(***************************************************************************)
(* watcher.js                                                              *)
(***************************************************************************)
AddDepNoNewCheck(h, w, d) ==
  AddSub([h EXCEPT !.newDepIds[w] = @ \cup {d}, !.newDeps[w] = Append(@, d)], d, w)

AddDep(h, w, d) ==
  IF d \notin h.newDepIds[w]
    THEN LET h1 == [h EXCEPT !.newDepIds[w] = @ \cup {d},
                             !.newDeps[w] = Append(@, d)]
         IN  IF d \notin h.depIds[w] THEN AddSub(h1, d, w) ELSE h1
    ELSE h

\* Dep.depend
Depend(h, d) == IF HasTarget(h) THEN AddDep(h, Target(h), d) ELSE h

RECURSIVE CleanupLoop(_, _, _)
CleanupLoop(h, w, i) ==
  IF i = 0 THEN h
  ELSE LET d == h.deps[w][i]
       IN  CleanupLoop(IF d \notin h.newDepIds[w] THEN RemoveSub(h, d, w) ELSE h,
                       w, i - 1)

CleanupDepsKeepsNew(h, w) ==
  [CleanupLoop(h, w, Len(h.deps[w])) EXCEPT
     !.depIds[w] = h.newDepIds[w], !.deps[w] = h.newDeps[w]]

CleanupDepsNoPrune(h, w) ==
  [h EXCEPT !.depIds[w] = h.newDepIds[w], !.newDepIds[w] = {},
            !.deps[w] = h.newDeps[w], !.newDeps[w] = <<>>]

CleanupDeps(h, w) ==
  LET h1 == CleanupLoop(h, w, Len(h.deps[w]))
  IN  [h1 EXCEPT !.depIds[w] = h1.newDepIds[w], !.newDepIds[w] = {},
                 !.deps[w] = h1.newDeps[w], !.newDeps[w] = <<>>]

(***************************************************************************)
(* observer/index.js                                                       *)
(***************************************************************************)
IsObject(v) == v \in AllObjs
IsArray(v) == v \in Arrays

\* Object.isExtensible(value)
IsExtensible(v) == v \notin Frozen

\* the conditions of observe(value) for making an Observer
CanObserve(v) == IsObject(v) /\ IsExtensible(v)

\* Observer.observeArray(items): observe(items[i]) for each i; the elements
\* of the model's arrays are primitives and plain objects
ObserveArray(h, s) ==
  [h EXCEPT !.ob = @ \cup {s[i] : i \in {j \in DOMAIN s : CanObserve(s[j])}}]

\* observe(value): the Observer of value, created when value is an array or
\* a plain object that has none; nothing for a primitive.  new Observer of
\* an array observes its elements.
Observe(h, v) ==
  IF ~IsObject(v) THEN [h EXCEPT !.ret = NoOb]
  ELSE IF v \notin h.ob /\ ~IsExtensible(v) THEN [h EXCEPT !.ret = NoOb]
  ELSE IF IsArray(v) /\ v \notin h.ob
    THEN [ObserveArray(h, h.items[v]) EXCEPT !.ob = @ \cup {v}, !.ret = v]
    ELSE [h EXCEPT !.ob = @ \cup {v}, !.ret = v]

\* Dep.depend() of Dep d during the evaluation of the target
DependOn(h, d) == Depend([h EXCEPT !.reading[Target(h)] = @ \cup {d}], d)

\* dependArray(value): e && e.__ob__ && e.__ob__.dep.depend() for each element
RECURSIVE DependArray(_, _, _)
DependArray(h, arr, i) ==
  IF i > Len(h.items[arr]) THEN h
  ELSE DependArray(IF h.items[arr][i] \in h.ob
                     THEN DependOn(h, h.items[arr][i]) ELSE h,
                   arr, i + 1)

\* if (childOb) { childOb.dep.depend(); if (Array.isArray(value)) dependArray(value) }
DependChild(h, f) ==
  IF h.childOb[f] = NoOb THEN h
  ELSE IF IsArray(h.val[f])
    THEN DependArray(DependOn(h, h.childOb[f]), h.val[f], 1)
    ELSE DependOn(h, h.childOb[f])

\* reactiveGetter of field f; the value read is left in ret
ReactiveGetter(h, f) ==
  LET h0 == [h EXCEPT !.ret = h.val[f]]
  IN  IF HasTarget(h0) THEN DependChild(DependOn(h0, f), f) ELSE h0

\* newVal === value of JavaScript: NaN is strictly equal to nothing
StrictEq(x, y) == x = y /\ x # NaN

(***************************************************************************)
(* watcher.js: get, run, update, evaluate                                  *)
(***************************************************************************)
\* throw e: the exception leaves the handlers in progress
Throw(h, w) == [h EXCEPT !.thrown = w]

Threw(h) == h.thrown # NoWatcher

\* handleError(e, vm, info): the error is reported, nothing is thrown
HandleError(h, w, info) ==
  [h EXCEPT !.errLog = Append(@, [w |-> w, info |-> info])]

\* the catch clause of vm._render(): an exception of the render function is
\* handed to handleError and the tree rendered before is patched against
\* itself, which leaves the native tree as it is
RenderCaught(h, w) ==
  HandleError([h EXCEPT !.ret = undefined, !.thrown = NoWatcher], w, "render")

RECURSIVE Evaluate(_, _)

\* watcher.depend(): dep.depend() of every Dep of the watcher, last to first
RECURSIVE WatcherDepend(_, _, _)
WatcherDepend(h, w, i) ==
  IF i = 0 THEN h ELSE WatcherDepend(DependOn(h, h.deps[w][i]), w, i - 1)

\* computedGetter of the computed property that watcher w backs: evaluate
\* when dirty, let the target depend on the Deps of w, return watcher.value
ComputedValue(h1, w) ==
  IF Threw(h1) THEN h1
  ELSE [(IF HasTarget(h1) THEN WatcherDepend(h1, w, Len(h1.deps[w])) ELSE h1)
          EXCEPT !.ret = h1.value[w]]

ComputedGetter(h, w) ==
  Once(LAMBDA h1 : ComputedValue(h1, w), IF h.dirty[w] THEN Evaluate(h, w) ELSE h)

\* the reads of an evaluator in turn; an exception ends them
RECURSIVE ReadAll(_, _, _)
ReadAll(h, reads, i) ==
  IF i > Len(reads) \/ Threw(h) THEN h
  ELSE Once(LAMBDA x : ReadAll(x, reads, i + 1),
            IF reads[i] = Computed THEN ComputedGetter(h, 1)
            ELSE ReactiveGetter(h, reads[i]))

\* this.getter.call(vm, vm) of a computed or a user watcher: the value of the
\* evaluator is the last value it read
Evaluator(h, w) == ReadAll(h, ReadsOf(h.getter[w], h.val), 1)

UpdateComponentStale(h, w) ==
  [Evaluator(h, w) EXCEPT !.ret = undefined]

\* The getter of the render watcher, updateComponent: vm._update(vm._render()).
\* The evaluator renders a text node showing the value it computed, and the
\* patch of the old text node against the new one sets the text of the handle.
VmUpdateText(h1, w) ==
  IF Threw(h1) THEN RenderCaught(h1, w)
  ELSE [h1 EXCEPT !.elmText = IF @ # h1.ret THEN h1.ret ELSE @,
                  !.ret = undefined]

UpdateComponent(h, w) == Once(LAMBDA h1 : VmUpdateText(h1, w), Evaluator(h, w))

\* the evaluator of w throws: "a_throws" reads field a and throws when it
\* finds "1"
GetterThrows(h, w) == h.getter[w] = "a_throws" /\ h.val["a"] = "1"

\* the catch clause of get()
GetCatch(h, w) ==
  IF IsUser(w)
    THEN HandleError([h EXCEPT !.ret = undefined, !.thrown = NoWatcher], w, "getter")
    ELSE Throw(h, w)

GetNoCatch(h, w) ==
  LET h1 == PushTarget([h EXCEPT !.reading[w] = {}, !.getCalls[w] = @ + 1], w)
      h2 == IF IsRender(w) THEN UpdateComponent(h1, w) ELSE Evaluator(h1, w)
      h2b == IF GetterThrows(h, w) THEN Throw(h2, w) ELSE h2
      h3 == CleanupDeps(PopTarget(h2b), w)
  IN  [h3 EXCEPT !.lastRead[w] = h3.reading[w]]

\* get(): try the getter, catch, and in the finally clause popTarget() and
\* cleanupDeps()
GetTry(h, w) ==
  LET h1 == PushTarget([h EXCEPT !.reading[w] = {}, !.getCalls[w] = @ + 1], w)
  IN  IF IsRender(w) THEN UpdateComponent(h1, w) ELSE Evaluator(h1, w)

GetFinally(h, h2, w) ==
  LET h2b == IF GetterThrows(h, w) \/ Threw(h2) THEN GetCatch(h2, w) ELSE h2
      h3 == CleanupDeps(PopTarget(h2b), w)
  IN  [h3 EXCEPT !.lastRead[w] = h3.reading[w]]

GetFrom(h, w) == Once(LAMBDA h2 : GetFinally(h, h2, w), GetTry(h, w))

Get(h, w) == Once(LAMBDA x : GetFrom(x, w), h)

RECURSIVE ReactiveSetter(_, _, _)

\* the other value of a field that holds "0" or "1"
Other(v) == IF v = "0" THEN "1" ELSE "0"

\* watcher.teardown()
Teardown(h, w) ==
  IF h.active[w]
    THEN LET RECURSIVE Unsub(_, _)
             Unsub(g, i) == IF i = 0 THEN g
                            ELSE Unsub(RemoveSub(g, h.deps[w][i], w), i - 1)
         IN  [Unsub(h, Len(h.deps[w])) EXCEPT !.active[w] = FALSE]
    ELSE h

\* this.cb.call(this.vm, value, oldValue), as it is called for a watcher
\* that is not a user watcher; an "unwatch" callback calls the function
\* returned by $watch, which tears its own watcher down
Cb(h, w) ==
  CASE h.cbKind[w] = "throw"   -> Throw(h, w)
    [] h.cbKind[w] = "toggle"  -> ReactiveSetter(h, "c", Other(h.val["c"]))
    [] h.cbKind[w] = "unwatch" -> Teardown(h, w)
    [] OTHER -> h

\* the catch clause around the callback of a user watcher
CbCatch(h1) ==
  IF Threw(h1)
    THEN HandleError([h1 EXCEPT !.thrown = NoWatcher], h1.thrown, "callback")
    ELSE h1

\* the callback of a user watcher, in its try block
UserCb(h, w) == Once(CbCatch, Cb(h, w))

\* run(), once get() has returned h1: the value is kept and the callback
\* called if the value changed or is an object
AfterGet(h1, old, w) ==
  IF Threw(h1) THEN h1
  ELSE IF ~StrictEq(h1.ret, old) \/ IsObject(h1.ret)
    THEN IF IsUser(w)
           THEN UserCb([h1 EXCEPT !.value[w] = h1.ret, !.cbCalls[w] = @ + 1], w)
           ELSE Cb([h1 EXCEPT !.value[w] = h1.ret, !.cbCalls[w] = @ + 1], w)
    ELSE h1

RunNoActiveCheck(h, w) ==
  Once(LAMBDA h1 : AfterGet(h1, h.value[w], w), Get(h, w))

Run(h, w) ==
  IF h.active[w]
    THEN Once(LAMBDA h1 : AfterGet(h1, h.value[w], w), Get(h, w))
    ELSE h

EvaluateStaysDirty(h, w) ==
  LET h1 == Get(h, w) IN [h1 EXCEPT !.value[w] = h1.ret]

EvaluateMarksClean(h, w) ==
  LET h1 == Get(h, w) IN [h1 EXCEPT !.value[w] = h1.ret, !.dirty[w] = FALSE]

\* evaluate(): this.value = this.get(); this.dirty = false.  When get()
\* throws neither assignment is made.
Evaluate(h, w) ==
  LET h1 == Get(h, w)
  IN  IF Threw(h1) THEN h1
      ELSE [h1 EXCEPT !.value[w] = h1.ret, !.dirty[w] = FALSE]

(***************************************************************************)
(* The scheduler: queueWatcher and flushSchedulerQueue                     *)
(***************************************************************************)
QueueWatcherDefers(h, w) ==
  IF w \notin h.has
    THEN IF h.flushing
           THEN [h EXCEPT !.has = @ \cup {w},
                          !.runLog = Append(@, [ev |-> "queued", w |-> w])]
           ELSE [h EXCEPT !.has = @ \cup {w}, !.queue = Append(@, w),
                          !.waiting = TRUE]
    ELSE h

\* queueWatcher(watcher); runLog notes the watchers that arrive during a flush
QueueWatcher(h, w) ==
  IF w \notin h.has
    THEN [h EXCEPT !.has = @ \cup {w}, !.queue = Append(@, w), !.waiting = TRUE,
                   !.runLog = IF h.flushing
                                THEN Append(@, [ev |-> "queued", w |-> w]) ELSE @]
    ELSE h

RECURSIVE SortById(_)
SortById(s) ==
  IF s = <<>> THEN <<>>
  ELSE LET m == CHOOSE x \in Range(s) : \A y \in Range(s) : x <= y
       IN  <<m>> \o SortById(RemoveFirst(s, m))

\* watcher.before(), given to the render watcher by mountComponent: the
\* beforeUpdate hook is called unless the component is destroyed
Before(h, w) ==
  IF IsRender(w)
    THEN [h EXCEPT !.runLog = @ \o <<[ev |-> "before", w |-> w]>>
                     \o (IF ~h.isDestroyed
                           THEN <<[ev |-> "beforeUpdate", w |-> w]>> ELSE <<>>)]
    ELSE h

\* the entries of w after position i leave the queue
DropAfter(q, i, w) ==
  SubSeq(q, 1, i) \o SelectSeq(SubSeq(q, i + 1, Len(q)), LAMBDA x : x # w)

AbortSilent(h, w, i) ==
  [h EXCEPT !.has = @ \ {w}, !.queue = DropAfter(@, i, w)]

\* the loop diagnostic: w leaves the flush
Abort(h, w, i) ==
  [h EXCEPT !.diag = @ \cup {w}, !.has = @ \ {w},
            !.queue = DropAfter(@, i, w)]

\* after run(): a watcher that is queued again has re-enqueued itself
Circular(h, w, i) ==
  IF w \in h.has
    THEN LET h1 == [h EXCEPT !.circular[w] = @ + 1,
                             !.runLog = Append(@, [ev |-> "requeued", w |-> w])]
         IN  IF h1.circular[w] > MAX_UPDATE_COUNT THEN Abort(h1, w, i) ELSE h1
    ELSE h

\* one turn of the loop: the before hook, has[id] = null, run(), the check
FlushOne(h, w, i) ==
  Once(LAMBDA h2 : IF Threw(h2) THEN h2 ELSE Circular(h2, w, i),
       Run([Before(h, w) EXCEPT !.has = @ \ {w},
                                !.runLog = Append(@, [ev |-> "run", w |-> w])], w))

RECURSIVE FlushLoop(_, _)
FlushLoop(h, i) ==
  IF i > Len(h.queue) \/ Threw(h) THEN h
  ELSE Once(LAMBDA x : FlushLoop(x, i + 1), FlushOne(h, h.queue[i], i))

FlushSchedulerQueueNoSort(h) ==
  LET h1 == FlushLoop([h EXCEPT !.flushing = TRUE], 1)
  IN  IF Threw(h1) THEN h1
      ELSE [h1 EXCEPT !.queue = <<>>, !.has = {}, !.waiting = FALSE,
                      !.flushing = FALSE, !.circular = [w \in Watchers |-> 0]]

FlushSchedulerQueue(h) ==
  LET h1 == FlushLoop([h EXCEPT !.flushing = TRUE, !.queue = SortById(@)], 1)
  IN  IF Threw(h1) THEN h1
      ELSE [h1 EXCEPT !.queue = <<>>, !.has = {}, !.waiting = FALSE,
                      !.flushing = FALSE, !.circular = [w \in Watchers |-> 0]]

UpdateRunsNow(h, w) ==
  LET h1 == [h EXCEPT !.updCalls[w] = @ + 1]
  IN  IF IsLazy(w) THEN [h1 EXCEPT !.dirty[w] = TRUE]
      ELSE Run([h1 EXCEPT !.updSince[w] = IF w \in h.sync THEN @ ELSE @ + 1], w)

Update(h, w) ==
  LET h1 == [h EXCEPT !.updCalls[w] = @ + 1]
  IN  IF IsLazy(w) THEN [h1 EXCEPT !.dirty[w] = TRUE]
      ELSE IF w \in h.sync THEN Run(h1, w)
      ELSE QueueWatcher([h1 EXCEPT !.updSince[w] = @ + 1], w)

(***************************************************************************)
(* dep.js: notify; observer/index.js: reactiveSetter                       *)
(***************************************************************************)
RECURSIVE NotifyLoop(_, _, _)
NotifyLoop(h, snapshot, i) ==
  IF i > Len(snapshot) \/ Threw(h) THEN h
  ELSE Once(LAMBDA x : NotifyLoop(x, snapshot, i + 1), Update(h, snapshot[i]))

\* notify() walking the live subscriber list instead of a copy of it
RECURSIVE NotifyLiveLoop(_, _, _)
NotifyLiveLoop(h, d, i) ==
  IF i > Len(h.subs[d]) \/ Threw(h) THEN h
  ELSE Once(LAMBDA x : NotifyLiveLoop(x, d, i + 1), Update(h, h.subs[d][i]))

NotifyLive(h, d) == NotifyLiveLoop([h EXCEPT !.notifyCalls[d] = @ + 1], d, 1)

\* const subs = this.subs.slice(), then update() on each of them
Notify(h, d) == NotifyLoop([h EXCEPT !.notifyCalls[d] = @ + 1], h.subs[d], 1)

ReactiveSetterNoNaN(h, f, newVal) ==
  IF StrictEq(newVal, h.val[f]) THEN h
  ELSE LET h1 == Observe([h EXCEPT !.val[f] = newVal], newVal)
       IN  Notify([h1 EXCEPT !.childOb[f] = h1.ret], f)

ReactiveSetter(h, f, newVal) ==
  LET v == h.val[f]
  IN  IF StrictEq(newVal, v) \/ (~StrictEq(newVal, newVal) /\ ~StrictEq(v, v))
        THEN h
        ELSE LET h1 == Observe([h EXCEPT !.val[f] = newVal], newVal)
             IN  Notify([h1 EXCEPT !.childOb[f] = h1.ret], f)

(***************************************************************************)
(* observer/array.js: the patched array methods                            *)
(***************************************************************************)
methodsToPatch == {"push", "pop", "shift", "unshift", "splice", "sort", "reverse"}

Min(x, y) == IF x < y THEN x ELSE y

Reverse(s) == [i \in DOMAIN s |-> s[Len(s) + 1 - i]]

IsItem0(x) == x = "0"
IsItem1(x) == x = "1"

\* Array.prototype.sort without a comparator: by the string of the element,
\* a plain object ("[object Object]") after the digits, equal ones in order
SortItems(s) ==
  SelectSeq(s, IsItem0) \o SelectSeq(s, IsItem1) \o SelectSeq(s, IsObject)

\* original.apply(this, args): the elements after the call.  c.args are the
\* elements handed over, c.start and c.del the first two arguments of splice.
Original(s, c) ==
  CASE c.m = "push" -> s \o c.args
    [] c.m = "pop" -> SubSeq(s, 1, Len(s) - 1)
    [] c.m = "shift" -> SubSeq(s, 2, Len(s))
    [] c.m = "unshift" -> c.args \o s
    [] c.m = "splice" ->
         SubSeq(s, 1, Min(c.start, Len(s))) \o c.args
           \o SubSeq(s, Min(c.start, Len(s)) + c.del + 1, Len(s))
    [] c.m = "sort" -> SortItems(s)
    [] OTHER -> Reverse(s)

\* whether the switch of the mutator sets inserted
HasInserted(c) == c.m \in {"push", "unshift", "splice"}

MutatorNotifyFirst(h, a, c) ==
  LET h1 == Notify([h EXCEPT !.items[a] = Original(@, c)], a)
  IN  IF HasInserted(c) THEN ObserveArray(h1, c.args) ELSE h1

\* mutator(...args) of method c.m, called on the observed array a
Mutator(h, a, c) ==
  LET h1 == [h EXCEPT !.items[a] = Original(@, c)]
  IN  Notify(IF HasInserted(c) THEN ObserveArray(h1, c.args) ELSE h1, a)

(***************************************************************************)
(* observer/index.js: set and del                                          *)
(***************************************************************************)
\* target.__ob__ is defined
HasOb(h, target) == target = RootData \/ target \in h.ob

\* target._isVue || (ob && ob.vmCount)
IsRootOrVm(h, target) ==
  target = Vm \/ (HasOb(h, target) /\ h.vmCount[target] > 0)

\* key in target: the component proxies the keys of its data
HasKey(h, target, key) ==
  IF target \in {RootData, Vm} THEN key \in Fields
  ELSE h.props[target][key] # absent

Warn(h) == [h EXCEPT !.warned = @ + 1]

\* target[key] = val: the reactiveSetter of the key when it has one, which
\* observes the new value
Assign(h, target, key, v) ==
  IF target \in {RootData, Vm} THEN ReactiveSetter(h, key, v)
  ELSE IF key \in h.reactiveKeys[target]
    THEN [Observe([h EXCEPT !.props[target][key] = v], v) EXCEPT !.ret = undefined]
    ELSE [h EXCEPT !.props[target][key] = v]

DefineReactiveShallow(h, target, key, v) ==
  [h EXCEPT !.props[target][key] = v, !.reactiveKeys[target] = @ \cup {key}]

\* defineReactive(ob.value, key, val): childOb = !shallow && observe(val)
DefineReactive(h, target, key, v) ==
  [Observe([h EXCEPT !.props[target][key] = v,
                     !.reactiveKeys[target] = @ \cup {key}], v)
     EXCEPT !.ret = undefined]

SetNoNotify(h, target, key, v) ==
  IF IsArray(target)
    THEN Mutator(h, target, [m |-> "splice", args |-> <<v>>, start |-> key, del |-> 1])
  ELSE IF HasKey(h, target, key) THEN Assign(h, target, key, v)
  ELSE IF IsRootOrVm(h, target) THEN Warn(h)
  ELSE IF ~HasOb(h, target) THEN Assign(h, target, key, v)
  ELSE DefineReactive(h, target, key, v)

\* set(target, key, val); key is an index when target is an array
Set(h, target, key, v) ==
  IF IsArray(target)
    THEN Mutator(h, target, [m |-> "splice", args |-> <<v>>, start |-> key, del |-> 1])
  ELSE IF HasKey(h, target, key) THEN Assign(h, target, key, v)
  ELSE IF IsRootOrVm(h, target) THEN Warn(h)
  ELSE IF ~HasOb(h, target) THEN Assign(h, target, key, v)
  ELSE Notify(DefineReactive(h, target, key, v), target)

\* delete target[key]
Delete(h, target, key) ==
  [h EXCEPT !.props[target][key] = absent, !.reactiveKeys[target] = @ \ {key}]

DelNoRootCheck(h, target, key) ==
  IF IsArray(target)
    THEN Mutator(h, target, [m |-> "splice", args |-> <<>>, start |-> key, del |-> 1])
  ELSE IF ~HasKey(h, target, key) THEN h
  ELSE IF ~HasOb(h, target) THEN Delete(h, target, key)
  ELSE Notify(Delete(h, target, key), target)

\* del(target, key); key is an index when target is an array
Del(h, target, key) ==
  IF IsArray(target)
    THEN Mutator(h, target, [m |-> "splice", args |-> <<>>, start |-> key, del |-> 1])
  ELSE IF IsRootOrVm(h, target) THEN Warn(h)
  ELSE IF ~HasKey(h, target, key) THEN h
  ELSE IF ~HasOb(h, target) THEN Delete(h, target, key)
  ELSE Notify(Delete(h, target, key), target)

(***************************************************************************)
(* vdom/vnode.js                                                           *)
(***************************************************************************)
NoElm == 0
Body == 1
NoKey == 0
NoTag == "none"
NoText == "none"
NoFactory == "none"

\* new VNode(tag, data, children, text); key is data && data.key.
\* data: whether data is defined; hook: whether data.hook defines the
\* prepatch, update, postpatch and destroy hooks; hasCh: whether children is
\* defined; oid: which object the node is, 0 for an object made by this
\* render and 1 for the tree cached by renderStatic.
VNode(tag, key, data, hasCh, children, text) ==
  [def |-> TRUE, tag |-> tag, key |-> key, data |-> data, hook |-> FALSE,
   hasCh |-> hasCh, children |-> children, text |-> text, elm |-> NoElm,
   isStatic |-> FALSE, isComment |-> FALSE, isCloned |-> FALSE,
   isOnce |-> FALSE, isAsyncPlaceholder |-> FALSE, asyncFactory |-> NoFactory,
   asyncResolved |-> FALSE, asyncError |-> FALSE, itype |-> "none", oid |-> 0]

\* undefined, where a node is expected
UndefV == [VNode(NoTag, NoKey, FALSE, FALSE, <<>>, NoText) EXCEPT !.def = FALSE]

CloneVNode(v) ==
  [VNode(v.tag, v.key, v.data, v.hasCh, v.children, v.text) EXCEPT
     !.hook = v.hook, !.itype = v.itype, !.elm = v.elm,
     !.asyncFactory = v.asyncFactory, !.asyncResolved = v.asyncResolved,
     !.asyncError = v.asyncError,
     !.isStatic = v.isStatic, !.isComment = v.isComment, !.isCloned = TRUE]

(***************************************************************************)
(* The native tree and its adapter (nodeOps).  A handle is a number; a     *)
(* handle that nothing refers to any more may be handed out again.         *)
(***************************************************************************)
MaxElm == 4 * MaxLen + 8
Elms == 1..MaxElm

\* the modules whose create, update, remove and destroy hooks are collected
\* in cbs
Modules == {"module"}

Log(p, op, e) == [p EXCEPT !.log = Append(@, [op |-> op, e |-> e])]

IndexOf(s, x) == CHOOSE i \in DOMAIN s : s[i] = x /\ \A j \in 1..(i - 1) : s[j] # x

ParentNode(p, e) ==
  IF \E x \in Elms : e \in Range(p.dom[x])
    THEN CHOOSE x \in Elms : e \in Range(p.dom[x])
    ELSE NoElm

NextSibling(p, e) ==
  IF ParentNode(p, e) = NoElm THEN NoElm
  ELSE LET s == p.dom[ParentNode(p, e)]
           i == IndexOf(s, e)
       IN  IF i < Len(s) THEN s[i + 1] ELSE NoElm

Detached(d, e) == [x \in Elms |-> RemoveFirst(d[x], e)]

\* parent.insertBefore(e, ref): e leaves the place it was in, if any
InsertBefore(p, parent, e, ref) ==
  IF ref = e THEN p
  ELSE LET d1 == Detached(p.dom, e)
           s  == d1[parent]
           i  == IF ref = NoElm THEN Len(s) + 1 ELSE IndexOf(s, ref)
       IN  [p EXCEPT !.dom = [d1 EXCEPT ![parent] =
                                SubSeq(s, 1, i - 1) \o <<e>> \o SubSeq(s, i, Len(s))],
                     !.log = Append(@, [op |-> IF ParentNode(p, e) # NoElm
                                                 THEN "move" ELSE "insert",
                                        e |-> e])]

AppendChild(p, parent, e) == InsertBefore(p, parent, e, NoElm)

RemoveChild(p, parent, e) ==
  [p EXCEPT !.dom[parent] = RemoveFirst(@, e),
            !.log = Append(@, [op |-> "remove", e |-> e])]

\* createElement, createTextNode, createComment: a handle not in use
CreateElement(p) ==
  LET e == CHOOSE x \in Elms \ p.live : \A y \in Elms \ p.live : x <= y
  IN  [p EXCEPT !.live = @ \cup {e}, !.ret = e,
                !.log = Append(@, [op |-> "create", e |-> e])]

(***************************************************************************)
(* vdom/patch.js                                                           *)
(***************************************************************************)
TextInputTypes == {"text", "number", "password", "search", "email", "tel", "url"}

SameInputTypeAlways(a, b) == TRUE

SameInputType(a, b) ==
  IF a.tag # "input" THEN TRUE
  ELSE a.itype = b.itype
         \/ (a.itype \in TextInputTypes /\ b.itype \in TextInputTypes)

SameVnodeNoKey(a, b) ==
  /\ a.tag = b.tag
  /\ a.isComment = b.isComment
  /\ a.data = b.data
  /\ SameInputType(a, b)

SameVnode(a, b) ==
  /\ a.key = b.key
  /\ \/ /\ a.tag = b.tag
        /\ a.isComment = b.isComment
        /\ a.data = b.data
        /\ SameInputType(a, b)
     \/ /\ a.isAsyncPlaceholder
        /\ a.asyncFactory = b.asyncFactory
        /\ ~b.asyncError

\* the map from key to index over children[beginIdx..endIdx]; 0 where the
\* key does not occur.  A later child with the same key overwrites an
\* earlier one.
CreateKeyToOldIdxFirst(children, beginIdx, endIdx) ==
  [k \in {children[i].key : i \in beginIdx..endIdx} \ {NoKey} |->
     CHOOSE i \in beginIdx..endIdx :
       /\ children[i].key = k
       /\ \A j \in beginIdx..(i - 1) : children[j].key # k]

\* for (i = beginIdx; i <= endIdx; ++i) if (isDef(key)) map[key] = i: a later
\* child with the same key takes the place of an earlier one
CreateKeyToOldIdx(children, beginIdx, endIdx) ==
  [k \in {children[i].key : i \in beginIdx..endIdx} \ {NoKey} |->
     CHOOSE i \in beginIdx..endIdx :
       /\ children[i].key = k
       /\ \A j \in (i + 1)..endIdx : children[j].key # k]

\* for (i = start; i < end; i++): the first defined child that is the same node
FindIdxInOld(node, oldCh, start, end) ==
  LET hit == {i \in start..(end - 1) : oldCh[i].def /\ SameVnode(node, oldCh[i])}
  IN  IF hit = {} THEN 0 ELSE CHOOSE i \in hit : \A j \in hit : i <= j

RemoveNode(p, el) ==
  LET parent == ParentNode(p, el)
  IN  IF parent # NoElm THEN RemoveChild(p, parent, el) ELSE p

\* insert(parent, elm, ref)
Insert(p, parent, elm, ref) ==
  IF parent # NoElm
    THEN IF ref # NoElm
           THEN IF ParentNode(p, ref) = parent
                  THEN InsertBefore(p, parent, elm, ref) ELSE p
           ELSE AppendChild(p, parent, elm)
    ELSE p

\* the create hook of every module, then data.hook.create
InvokeCreateHooks(p, v) == Log(p, "createHook", v.elm)

RECURSIVE CreateElm(_, _, _, _, _)
RECURSIVE CreateChildrenLoop(_, _, _)

\* children[i] = the node createElm left in its place
SetChild(p1, v, i) == [p1 EXCEPT !.out = [v EXCEPT !.children[i] = p1.out]]

\* nodeOps.appendChild(parent, nodeOps.createTextNode(...))
AppendCreated(p1, parent) == AppendChild(p1, parent, p1.ret)

\* createChildren(vnode, children): p.out is vnode, its children created
CreateChildren(p, v) ==
  IF v.hasCh THEN CreateChildrenLoop([p EXCEPT !.out = v], v.elm, 1)
  ELSE IF v.text # NoText
    THEN AppendCreated(CreateElement([p EXCEPT !.out = v]), v.elm)
    ELSE [p EXCEPT !.out = v]

CreateChildrenLoop(p, parentElm, i) ==
  IF i > Len(p.out.children) THEN p
  ELSE CreateChildrenLoop(
         SetChild(CreateElm(p, p.out.children[i], parentElm, NoElm, TRUE), p.out, i),
         parentElm, i + 1)

\* if (isDef(vnode.elm) && isDef(ownerArray)) vnode = ownerArray[index] = cloneVNode(vnode)
Owned(v, owned) == IF v.elm # NoElm /\ owned THEN CloneVNode(v) ELSE v

\* if (isDef(data)) invokeCreateHooks(vnode, insertedVnodeQueue)
CreateHooks(p) == IF p.out.data THEN InvokeCreateHooks(p, p.out) ELSE p

\* createElm after the handle p.ret was made: the children, the create
\* hooks, then the insertion; a text or comment node is only inserted
CreateElmWith(p, v, parentElm, refElm) ==
  IF v.tag # NoTag
    THEN Insert(CreateHooks(CreateChildren(p, [v EXCEPT !.elm = p.ret])),
                parentElm, p.ret, refElm)
    ELSE Insert([p EXCEPT !.out = [v EXCEPT !.elm = p.ret]], parentElm, p.ret, refElm)

\* createElm(vnode, queue, parentElm, refElm, nested, ownerArray, index);
\* owned: whether ownerArray is given.  p.out is the node that now stands in
\* ownerArray[index], its handle filled in.
CreateElm(p, vnode0, parentElm, refElm, owned) ==
  CreateElmWith(CreateElement(p), Owned(vnode0, owned), parentElm, refElm)

\* vnodes[i] = the node createElm left in its place
PutCh(p1, i) == [p1 EXCEPT !.outCh[i] = p1.out]

RECURSIVE AddLoop(_, _, _, _, _)
AddLoop(p, parentElm, refElm, startIdx, endIdx) ==
  IF startIdx > endIdx THEN p
  ELSE Once(LAMBDA q : AddLoop(q, parentElm, refElm, startIdx + 1, endIdx),
            PutCh(CreateElm(p, p.outCh[startIdx], parentElm, refElm, TRUE),
                  startIdx))

\* addVnodes: p.outCh is vnodes with the created nodes in place
AddVnodes(p, parentElm, refElm, vnodes, startIdx, endIdx) ==
  AddLoop([p EXCEPT !.outCh = vnodes], parentElm, refElm, startIdx, endIdx)

RECURSIVE InvokeDestroyHook(_, _)
RECURSIVE DestroyChildren(_, _, _)

\* data.hook.destroy, then the destroy hook of every module
OwnDestroyHooks(p, v) ==
  IF v.data
    THEN Log(IF v.hook THEN Log(p, "hook.destroy", v.elm) ELSE p, "destroy", v.elm)
    ELSE p

InvokeDestroyHookChildrenFirst(p, v) ==
  OwnDestroyHooks(DestroyChildren(p, IF v.hasCh THEN v.children ELSE <<>>, 1), v)

\* invokeDestroyHook(vnode): the node's own hooks, then those of its children
InvokeDestroyHook(p, v) ==
  DestroyChildren(OwnDestroyHooks(p, v), IF v.hasCh THEN v.children ELSE <<>>, 1)

DestroyChildren(p, children, j) ==
  IF j > Len(children) THEN p
  ELSE DestroyChildren(InvokeDestroyHook(p, children[j]), children, j + 1)

RmCbEager(p, childElm, n) == RemoveNode(p, childElm)

\* rm(), called on rm.listeners = n: the call that brings it to 0 removes the node
RmCb(p, childElm, n) == IF n - 1 = 0 THEN RemoveNode(p, childElm) ELSE p

\* removeAndInvokeRemoveHook(vnode): rm = createRmCb(vnode.elm, listeners);
\* every module's remove hook is handed rm and calls it, then, no
\* data.hook.remove being given, rm is called once more
RemoveAndInvokeRemoveHook(p, v) ==
  IF v.data
    THEN RmCb(Log(p, "removeHook", v.elm), v.elm,
              (Cardinality(Modules) + 1) - Cardinality(Modules))
    ELSE RemoveNode(p, v.elm)

\* the body of the loop of removeVnodes, for ch = vnodes[startIdx]
RemoveOne(p, ch) ==
  IF ~ch.def THEN p
  ELSE IF ch.tag # NoTag
    THEN InvokeDestroyHook(RemoveAndInvokeRemoveHook(p, ch), ch)
    ELSE RemoveNode(p, ch.elm)

RECURSIVE RemoveVnodes(_, _, _, _)
RemoveVnodes(p, vnodes, startIdx, endIdx) ==
  IF startIdx > endIdx THEN p
  ELSE Once(LAMBDA q : RemoveVnodes(q, vnodes, startIdx + 1, endIdx),
            RemoveOne(p, vnodes[startIdx]))

\* isPatchable(vnode), for a node that is not a component placeholder
IsPatchable(v) == v.tag # NoTag

RECURSIVE PatchVnode(_, _, _, _, _)
RECURSIVE UpdateLoop(_, _, _)

NoBranch == [kind |-> "none", oi |-> 0, ni |-> 0]

\* oldKeyToIdx as the loop has it once it is needed
MapOf(u) == IF u.hasMap THEN u.map ELSE CreateKeyToOldIdx(u.oldCh, u.os, u.oe)

\* idxInOld, 0 for undefined
IdxInOld(u, map) ==
  IF u.newCh[u.ns].key # NoKey
    THEN IF u.newCh[u.ns].key \in DOMAIN map THEN map[u.newCh[u.ns].key] ELSE 0
    ELSE FindIdxInOld(u.newCh[u.ns], u.oldCh, u.os, u.oe)

\* a lookup that takes the node found under the key, whatever its tag
LookupByKeyOnly(u, idxInOld) ==
  IF idxInOld = 0 THEN [NoBranch EXCEPT !.kind = "create", !.ni = u.ns]
  ELSE IF ~u.oldCh[idxInOld].def THEN [NoBranch EXCEPT !.kind = "throw"]
  ELSE [kind |-> "found", oi |-> idxInOld, ni |-> u.ns]

\* the last branch of the loop, with idxInOld looked up
Lookup(u, idxInOld) ==
  IF idxInOld = 0 THEN [NoBranch EXCEPT !.kind = "create", !.ni = u.ns]
  ELSE IF ~u.oldCh[idxInOld].def THEN [NoBranch EXCEPT !.kind = "throw"]
  ELSE IF SameVnode(u.oldCh[idxInOld], u.newCh[u.ns])
    THEN [kind |-> "found", oi |-> idxInOld, ni |-> u.ns]
    ELSE [NoBranch EXCEPT !.kind = "create", !.ni = u.ns]

\* which branch of the while loop of updateChildren is taken, and for which
\* old and new child.  u holds the locals: the two lists, the four cursors
\* (counted from 1) and oldKeyToIdx.
Branch(u) ==
  IF ~u.oldCh[u.os].def THEN [NoBranch EXCEPT !.kind = "skipStart"]
  ELSE IF ~u.oldCh[u.oe].def THEN [NoBranch EXCEPT !.kind = "skipEnd"]
  ELSE IF SameVnode(u.oldCh[u.os], u.newCh[u.ns])
    THEN [kind |-> "startStart", oi |-> u.os, ni |-> u.ns]
  ELSE IF SameVnode(u.oldCh[u.oe], u.newCh[u.ne])
    THEN [kind |-> "endEnd", oi |-> u.oe, ni |-> u.ne]
  ELSE IF SameVnode(u.oldCh[u.os], u.newCh[u.ne])
    THEN [kind |-> "startEnd", oi |-> u.os, ni |-> u.ne]
  ELSE IF SameVnode(u.oldCh[u.oe], u.newCh[u.ns])
    THEN [kind |-> "endStart", oi |-> u.oe, ni |-> u.ns]
  ELSE Lookup(u, IdxInOld(u, MapOf(u)))

MoveAfterNoMove(p1, u, b, parentElm, canMove) == p1

\* canMove && nodeOps.insertBefore(...), after the patch of the matched pair
MoveAfter(p1, u, b, parentElm, canMove) ==
  IF ~canMove THEN p1
  ELSE IF b.kind = "startEnd"
    THEN InsertBefore(p1, parentElm, u.oldCh[u.os].elm,
                      NextSibling(p1, u.oldCh[u.oe].elm))
  ELSE IF b.kind = "endStart"
    THEN InsertBefore(p1, parentElm, u.oldCh[u.oe].elm, u.oldCh[u.os].elm)
  ELSE IF b.kind = "found"
    THEN InsertBefore(p1, parentElm, u.oldCh[b.oi].elm, u.oldCh[u.os].elm)
  ELSE p1

AdvanceKeepsNewStart(u, b, p2) ==
  [u EXCEPT !.p = p2,
            !.newCh[b.ni] = p2.out,
            !.hasMap = @ \/ b.kind \in {"found", "create"},
            !.map = IF b.kind \in {"found", "create"} THEN MapOf(u) ELSE @,
            !.os = IF b.kind \in {"startStart", "startEnd"} THEN @ + 1 ELSE @,
            !.oe = IF b.kind \in {"endEnd", "endStart"} THEN @ - 1 ELSE @,
            !.ns = IF b.kind \in {"startStart", "endStart"} THEN @ + 1 ELSE @,
            !.ne = IF b.kind \in {"endEnd", "startEnd"} THEN @ - 1 ELSE @]

\* the cursors and lists after the branch b left p2, with p2.out in newCh
Advance(u, b, p2) ==
  [u EXCEPT !.p = p2,
            !.newCh[b.ni] = p2.out,
            !.oldCh = IF b.kind = "found" THEN [@ EXCEPT ![b.oi] = UndefV] ELSE @,
            !.hasMap = @ \/ b.kind \in {"found", "create"},
            !.map = IF b.kind \in {"found", "create"} THEN MapOf(u) ELSE @,
            !.os = IF b.kind \in {"startStart", "startEnd"} THEN @ + 1 ELSE @,
            !.oe = IF b.kind \in {"endEnd", "endStart"} THEN @ - 1 ELSE @,
            !.ns = IF b.kind \in {"startStart", "endStart", "found", "create"}
                     THEN @ + 1 ELSE @,
            !.ne = IF b.kind \in {"endEnd", "startEnd"} THEN @ - 1 ELSE @]

\* one turn of the while loop, the branch being b
TakeBranch(u, b, parentElm, canMove) ==
  IF b.kind = "skipStart" THEN [u EXCEPT !.os = @ + 1]
  ELSE IF b.kind = "skipEnd" THEN [u EXCEPT !.oe = @ - 1]
  ELSE IF b.kind = "throw" THEN [u EXCEPT !.p.err = TRUE]
  ELSE IF b.kind = "create"
    THEN Once(LAMBDA p2 : Advance(u, b, p2),
              CreateElm(u.p, u.newCh[u.ns], parentElm, u.oldCh[u.os].elm, TRUE))
  ELSE Once(LAMBDA p2 : Advance(u, b, p2),
            Once(LAMBDA p1 : MoveAfter(p1, u, b, parentElm, canMove),
                 PatchVnode(u.p, u.oldCh[b.oi], u.newCh[b.ni], TRUE, FALSE)))

UpdateStep(u, parentElm, canMove) ==
  Once(LAMBDA b : TakeBranch(u, b, parentElm, canMove), Branch(u))

UpdateLoop(u, parentElm, canMove) ==
  IF u.p.err \/ ~(u.os <= u.oe /\ u.ns <= u.ne) THEN u
  ELSE Once(LAMBDA u1 : UpdateLoop(u1, parentElm, canMove),
            UpdateStep(u, parentElm, canMove))

\* the locals of updateChildren when the loop is entered
UpdateStart(p, oldCh, newCh) ==
  [p |-> p, oldCh |-> oldCh, newCh |-> newCh,
   os |-> 1, oe |-> Len(oldCh), ns |-> 1, ne |-> Len(newCh),
   hasMap |-> FALSE, map |-> <<>>]

UpdateEndNoTail(u, parentElm) == [u.p EXCEPT !.outCh = u.newCh]

\* what updateChildren does after the loop
UpdateEnd(u, parentElm) ==
  IF u.p.err THEN [u.p EXCEPT !.outCh = u.newCh]
  ELSE IF u.os > u.oe
    THEN AddVnodes(u.p, parentElm,
                   IF u.ne + 1 > Len(u.newCh) THEN NoElm ELSE u.newCh[u.ne + 1].elm,
                   u.newCh, u.ns, u.ne)
  ELSE IF u.ns > u.ne
    THEN [RemoveVnodes(u.p, u.oldCh, u.os, u.oe) EXCEPT !.outCh = u.newCh]
  ELSE [u.p EXCEPT !.outCh = u.newCh]

\* updateChildren(parentElm, oldCh, newCh, insertedVnodeQueue, removeOnly):
\* p.outCh is newCh as the diff leaves it
UpdateChildren(p, parentElm, oldCh, newCh, removeOnly) ==
  UpdateEnd(UpdateLoop(UpdateStart(p, oldCh, newCh), parentElm, ~removeOnly),
            parentElm)

IsStaticReuseNever(oldVnode, v) == FALSE

\* the condition under which patchVnode reuses a static tree as it is
IsStaticReuse(oldVnode, v) ==
  /\ v.isStatic
  /\ oldVnode.isStatic
  /\ v.key = oldVnode.key
  /\ (v.isCloned \/ v.isOnce)

\* data.hook.prepatch, then the update hook of every module and data.hook.update
UpdateHooks(p, v) ==
  IF ~v.data THEN p
  ELSE IF ~v.hook
    THEN IF IsPatchable(v) THEN Log(p, "update", v.elm) ELSE p
  ELSE IF IsPatchable(v)
    THEN Log(Log(Log(p, "prepatch", v.elm), "update", v.elm), "hook.update", v.elm)
    ELSE Log(p, "prepatch", v.elm)

\* the children or the text of vnode brought up to date; p.outCh is
\* vnode.children as the diff leaves it
PatchChildren(p, oldVnode, v, removeOnly) ==
  IF v.text = NoText
    THEN IF oldVnode.hasCh /\ v.hasCh
           THEN UpdateChildren(Log(p, "updateChildren", v.elm), v.elm,
                               oldVnode.children, v.children, removeOnly)
         ELSE IF v.hasCh
           THEN AddVnodes(IF oldVnode.text # NoText
                            THEN Log(p, "setText", v.elm) ELSE p,
                          v.elm, NoElm, v.children, 1, Len(v.children))
         ELSE IF oldVnode.hasCh
           THEN [RemoveVnodes(p, oldVnode.children, 1, Len(oldVnode.children))
                   EXCEPT !.outCh = v.children]
         ELSE IF oldVnode.text # NoText
           THEN [Log(p, "setText", v.elm) EXCEPT !.outCh = v.children]
         ELSE [p EXCEPT !.outCh = v.children]
  ELSE IF oldVnode.text # v.text
    THEN [Log(p, "setText", v.elm) EXCEPT !.outCh = v.children]
  ELSE [p EXCEPT !.outCh = v.children]

\* data.hook.postpatch; p.out is vnode with its children as the diff left them
PostPatch(p, v) ==
  [IF ~p.err /\ v.data /\ v.hook THEN Log(p, "postpatch", v.elm) ELSE p
     EXCEPT !.out = [v EXCEPT !.children = p.outCh]]

\* patchVnode once vnode.elm = oldVnode.elm is set
PatchVnodeWith(p, oldVnode, v, removeOnly) ==
  IF oldVnode.isAsyncPlaceholder
    THEN IF v.asyncResolved
           THEN [Log(p, "hydrate", v.elm) EXCEPT !.out = v]
           ELSE [p EXCEPT !.out = [v EXCEPT !.isAsyncPlaceholder = TRUE]]
  ELSE IF IsStaticReuse(oldVnode, v)
    THEN [p EXCEPT !.out = v]
  ELSE PostPatch(PatchChildren(UpdateHooks(p, v), oldVnode, v, removeOnly), v)

\* patchVnode(oldVnode, vnode, insertedVnodeQueue, ownerArray, index,
\* removeOnly); owned: whether ownerArray is given.  p.out is the node that
\* now stands for vnode.
PatchVnode(p, oldVnode, vnode0, owned, removeOnly) ==
  IF vnode0.oid # 0 /\ oldVnode.oid = vnode0.oid THEN [p EXCEPT !.out = vnode0]
  ELSE PatchVnodeWith(p, oldVnode,
                      [Owned(vnode0, owned) EXCEPT !.elm = oldVnode.elm], removeOnly)

\* emptyNodeAt(elm): new VNode(tagName, {}, [], undefined, elm)
EmptyNodeAt(elm) == [VNode("div", NoKey, TRUE, TRUE, <<>>, NoText) EXCEPT !.elm = elm]

\* the old node is destroyed after the tree that replaces it was created
DestroyOld(p1, oldVnode, parentElm) ==
  IF parentElm # NoElm THEN RemoveVnodes(p1, <<oldVnode>>, 1, 1)
  ELSE IF oldVnode.tag # NoTag THEN InvokeDestroyHook(p1, oldVnode)
  ELSE p1

\* the branch of patch that replaces the old node
ReplaceRemovesFirst(p, oldVnode, v) ==
  CreateElm(DestroyOld(p, oldVnode, ParentNode(p, oldVnode.elm)), v,
            ParentNode(p, oldVnode.elm), NextSibling(p, oldVnode.elm), FALSE)

Replace(p, oldVnode, v) ==
  DestroyOld(CreateElm(p, v, ParentNode(p, oldVnode.elm),
                       NextSibling(p, oldVnode.elm), FALSE),
             oldVnode, ParentNode(p, oldVnode.elm))

\* patch(oldVnode, vnode, hydrating, removeOnly), not hydrating; realElm is
\* the native element given as oldVnode, or NoElm when oldVnode is a virtual
\* node or undefined.  p.out is the tree now rendered.
PatchFn(p, oldVnode, v, realElm) ==
  IF ~v.def
    THEN IF oldVnode.def THEN InvokeDestroyHook([p EXCEPT !.out = v], oldVnode)
         ELSE [p EXCEPT !.out = v]
  ELSE IF ~oldVnode.def /\ realElm = NoElm
    THEN CreateElm(p, v, NoElm, NoElm, FALSE)
  ELSE IF realElm = NoElm /\ SameVnode(oldVnode, v)
    THEN PatchVnode(p, oldVnode, v, FALSE, FALSE)
  ELSE Replace(p, IF realElm # NoElm THEN EmptyNodeAt(realElm) ELSE oldVnode, v)

(***************************************************************************)
(* core/instance: render, _update and $destroy of one component            *)
(***************************************************************************)
\* the element the component is mounted on, a child of the document body
El == 2

\* keys given by renderStatic and markOnce
StaticKey == 100
OnceKey == 200

Keys == 1..MaxLen

Elem(tag, key) == VNode(tag, key, key # NoKey, FALSE, <<>>, NoText)

TextNode(text) == VNode(NoTag, NoKey, FALSE, FALSE, <<>>, text)

\* a node with hooks and a subtree: <ul key=..> <li hook/> <li> <b data/> </li> </ul>
Nested ==
  [VNode("ul", MaxLen + 1, TRUE, TRUE,
         << [VNode("li", NoKey, TRUE, FALSE, <<>>, NoText) EXCEPT !.hook = TRUE],
            VNode("li", NoKey, FALSE, TRUE,
                  << VNode("b", NoKey, TRUE, FALSE, <<>>, NoText) >>, NoText) >>,
         NoText) EXCEPT !.hook = TRUE]

\* markStaticNode(node, key, isOnce) on a fresh <p>text</p>
StaticNode(key, isOnce, oid) ==
  [VNode("p", key, TRUE, TRUE, << [TextNode("s") EXCEPT !.oid = 2 * oid] >>, NoText)
     EXCEPT !.isStatic = TRUE, !.isOnce = isOnce, !.oid = oid]

\* renderStatic(index, isInFor), st being the tree cached for index: the
\* cached tree unless in v-for, else a fresh tree with key __static__<index>
RenderStatic(index, st, isInFor) ==
  IF st.def /\ ~isInFor THEN st
  ELSE StaticNode(StaticKey + index, FALSE, IF isInFor THEN 0 ELSE 1)

KeyedLists ==
  UNION {{s \in [1..n -> Keys] : \A i, j \in 1..n : i # j => s[i] # s[j]} :
           n \in 0..MaxLen}

\* what the render function may return: the children of the root <div>
Renders ==
  [kind : {"keyed"}, keys : KeyedLists]
    \cup [kind : {"static", "staticInFor", "once", "nested", "text", "text2",
                  "span", "unkeyed", "section", "replaced"},
          keys : {<<>>}]

ChildrenOf(c, st) ==
  CASE c.kind = "keyed"       -> [i \in DOMAIN c.keys |-> Elem("div", c.keys[i])]
    [] c.kind = "static"      -> << RenderStatic(0, st, FALSE) >>
    [] c.kind = "staticInFor" -> << RenderStatic(1, UndefV, TRUE) >>
    [] c.kind = "once"        -> << StaticNode(OnceKey, TRUE, 0) >>
    [] c.kind = "nested"      -> << Nested, Elem("div", 1) >>
    [] c.kind = "text"        -> << TextNode("t") >>
    [] c.kind = "text2"       -> << TextNode("u") >>
    [] c.kind = "span"        -> << Elem("span", 1), Elem("div", 2) >>
    [] c.kind = "unkeyed"     -> << Elem("a", NoKey), Elem("b", NoKey) >>
    [] c.kind = "replaced"    -> << Elem("div", 1), Elem("div", MaxLen + 2),
                                    Elem("div", MaxLen) >>
    [] OTHER                  -> <<>>

\* vm._render()
Render(c, st) ==
  VNode(IF c.kind = "section" THEN "section" ELSE "div", NoKey, FALSE, TRUE,
        ChildrenOf(c, st), NoText)

\* vm._staticTrees[0] after the render and the patch: the cached object is
\* the node with oid 1, with what the patch wrote into it
CachedAfter(tree, c, st) ==
  IF c.kind # "static" THEN st
  ELSE IF tree.children[1].oid = 1 THEN tree.children[1]
  ELSE st

RECURSIVE ElmsOf(_)
RECURSIVE ElmsOfList(_, _)
\* the handles a tree refers to, parents first
ElmsOf(v) ==
  IF ~v.def THEN <<>>
  ELSE (IF v.elm # NoElm THEN <<v.elm>> ELSE <<>>) \o ElmsOfList(v.children, 1)

ElmsOfList(children, i) ==
  IF i > Len(children) THEN <<>>
  ELSE ElmsOf(children[i]) \o ElmsOfList(children, i + 1)

RECURSIVE DomOrder(_, _)
RECURSIVE DomOrderList(_, _, _)
\* the handles of the native tree under e, parents first
DomOrder(d, e) == <<e>> \o DomOrderList(d, d[e], 1)

DomOrderList(d, s, i) ==
  IF i > Len(s) THEN <<>> ELSE DomOrder(d, s[i]) \o DomOrderList(d, s, i + 1)

\* the handles in use: in the document, or referred to by a tree that is kept
Live == Range(DomOrder(dom, Body)) \cup Range(ElmsOf(vnode))
          \cup Range(ElmsOf(staticTree))

RECURSIVE KeysOf(_)
RECURSIVE KeysOfList(_, _)
\* the keys of a list that a tree uses, parents first
KeysOf(v) ==
  IF ~v.def THEN <<>>
  ELSE (IF v.key \in Keys THEN <<v.key>> ELSE <<>>) \o KeysOfList(v.children, 1)

KeysOfList(children, i) ==
  IF i > Len(children) THEN <<>>
  ELSE KeysOf(children[i]) \o KeysOfList(children, i + 1)

\* Handles are names, and so are the keys of a list: the patch compares them
\* for equality only.  After a patch both are renamed in the order in which
\* the document, the trees and the log mention them, so that states which
\* differ only in these names are one state.
RECURSIVE Firsts(_, _)
\* s without the repetitions of its elements, after those in seen
Firsts(s, seen) ==
  IF s = <<>> THEN <<>>
  ELSE IF Head(s) \in seen THEN Firsts(Tail(s), seen)
  ELSE <<Head(s)>> \o Firsts(Tail(s), seen \cup {Head(s)})

NameOf(order, e) ==
  IF e \in Range(order) THEN CHOOSE i \in DOMAIN order : order[i] = e ELSE e

RECURSIVE RenameV(_, _, _)
RenameV(v, order, keyOrder) ==
  [v EXCEPT !.elm = NameOf(order, v.elm),
            !.key = NameOf(keyOrder, v.key),
            !.children = [i \in DOMAIN v.children |->
                            RenameV(v.children[i], order, keyOrder)]]

RenameDom(d, order) ==
  LET inDoc == Range(DomOrder(d, Body))
  IN  [x \in Elms |->
         IF x <= Len(order) /\ order[x] \in inDoc
           THEN [i \in DOMAIN d[order[x]] |-> NameOf(order, d[order[x]][i])]
           ELSE <<>>]

\* the state of the patch variables after a patch that left p, rendered
\* tree `tree`, with cached static tree st and old tree old
Patched(p, tree, st, old) ==
  LET order == Firsts(DomOrder(p.dom, Body) \o ElmsOf(tree) \o ElmsOf(st)
                        \o ElmsOf(old) \o [i \in DOMAIN p.log |-> p.log[i].e],
                      {})
      keyOrder == Firsts(KeysOf(tree) \o KeysOf(old), {})
  IN  /\ vnode' = RenameV(tree, order, keyOrder)
      /\ staticTree' = RenameV(st, order, keyOrder)
      /\ prevVnode' = RenameV(old, order, keyOrder)
      /\ dom' = RenameDom(p.dom, order)
      /\ plog' = [i \in DOMAIN p.log |->
                    [op |-> p.log[i].op, e |-> NameOf(order, p.log[i].e)]]

\* after vm._update(vnode): what the patch p left, and vm._staticTrees[0]
\* as renderStatic and the patch left it
Updated(p, c, old) ==
  Patched(p, p.out,
          CachedAfter(p.out, c, IF c.kind = "static" THEN RenderStatic(0, staticTree, FALSE)
                                ELSE staticTree),
          old)

NewPatch == [dom |-> dom, log |-> <<>>, live |-> Live, out |-> UndefV,
             outCh |-> <<>>, ret |-> NoElm, err |-> FALSE]

(***************************************************************************)
(* Construction: the data is made reactive, then the computed watcher, the *)
(* user watchers and, at mount, the render watcher are created in order.   *)
(***************************************************************************)
NewWatcher(h, w) ==
  LET h1 == [h EXCEPT !.active[w] = TRUE, !.dirty[w] = IsLazy(w)]
  IN  IF IsLazy(w) THEN [h1 EXCEPT !.value[w] = undefined]
      ELSE LET h2 == Get(h1, w) IN [h2 EXCEPT !.value[w] = h2.ret]

RECURSIVE NewWatchers(_, _)
NewWatchers(h, w) ==
  IF w \notin Watchers THEN h
  ELSE Once(LAMBDA x : NewWatchers(x, w + 1), NewWatcher(h, w))

NoAct == [op |-> "init", f |-> "-", v |-> "-", w |-> 0, upd |-> Zero,
          key |-> "-", args |-> <<>>]

Blank(g) ==
  [val |-> [f \in Fields |-> "0"], childOb |-> [f \in Fields |-> NoOb],
   ob |-> {}, subs |-> [d \in DepIds |-> <<>>], targetStack |-> <<>>,
   getter |-> g, deps |-> [w \in Watchers |-> <<>>],
   newDeps |-> [w \in Watchers |-> <<>>], depIds |-> [w \in Watchers |-> {}],
   newDepIds |-> [w \in Watchers |-> {}],
   value |-> [w \in Watchers |-> undefined],
   dirty |-> [w \in Watchers |-> FALSE], active |-> [w \in Watchers |-> FALSE],
   queue |-> <<>>, has |-> {}, waiting |-> FALSE, flushing |-> FALSE,
   elmText |-> undefined, updCalls |-> Zero, getCalls |-> Zero, cbCalls |-> Zero,
   reading |-> [w \in Watchers |-> {}], lastRead |-> [w \in Watchers |-> {}],
   updSince |-> Zero, lastAct |-> NoAct, ret |-> undefined,
   items |-> [a \in Arrays |-> <<>>],
   props |-> [o \in Objs |-> [k \in PropKeys |-> absent]],
   reactiveKeys |-> [o \in Objs |-> {}],
   vmCount |-> [o \in AllObjs \cup {RootData} |-> IF o = RootData THEN 1 ELSE 0],
   notifyCalls |-> [d \in DepIds |-> 0], warned |-> 0,
   cbKind |-> [w \in Watchers |-> "noop"],
   sync |-> {w \in Watchers : IsSync(w)}, errLog |-> <<>>, runLog |-> <<>>,
   diag |-> {}, thrown |-> NoWatcher, circular |-> [w \in Watchers |-> 0],
   isDestroyed |-> FALSE]

InitFrom(blank) ==
    \E h \in {NewWatchers(blank, 1)} :
        /\ val = h.val /\ childOb = h.childOb /\ ob = h.ob /\ subs = h.subs
        /\ targetStack = h.targetStack /\ getter = h.getter /\ deps = h.deps
        /\ newDeps = h.newDeps /\ depIds = h.depIds /\ newDepIds = h.newDepIds
        /\ value = h.value /\ dirty = h.dirty /\ active = h.active
        /\ queue = h.queue /\ has = h.has /\ waiting = h.waiting
        /\ flushing = h.flushing /\ elmText = h.elmText
        /\ updCalls = h.updCalls /\ getCalls = h.getCalls /\ cbCalls = h.cbCalls
        /\ reading = h.reading /\ lastRead = h.lastRead
        /\ updSince = h.updSince /\ lastAct = h.lastAct
        /\ vnode = UndefV /\ staticTree = UndefV /\ prevVnode = UndefV
        /\ dom = [e \in Elms |-> IF e = Body THEN <<El>> ELSE <<>>]
        /\ plog = <<>>
        /\ isDestroyed = FALSE

InitWith(g) == InitFrom(Blank(g))

\* no collection is in use
ObsIdle ==
  /\ items = Blank(getter).items /\ props = Blank(getter).props
  /\ reactiveKeys = Blank(getter).reactiveKeys /\ vmCount = Blank(getter).vmCount
  /\ notifyCalls = Blank(getter).notifyCalls /\ warned = 0

\* no callback does anything and nothing was thrown
SchedIdle ==
  /\ cbKind = Blank(getter).cbKind /\ sync = Blank(getter).sync
  /\ errLog = <<>> /\ runLog = <<>>
  /\ diag = {} /\ thrown = NoWatcher

\* new Vue({...}) with any of the getters the watchers may be given
InitRx ==
  \E g \in {x \in [Watchers -> Getters] : \A w \in Watchers : x[w] \in GetterChoices(w)} :
    InitWith(g)

(***************************************************************************)
(* Actions of the reactivity engine                                        *)
(***************************************************************************)
\* vm.f = v, outside of any evaluation
Write(f, v) ==
  /\ \A w \in Watchers : updSince[w] < MaxWrites
  /\ LET h == ReactiveSetter(Begin(Rx), f, v)
     IN  Install([h EXCEPT !.lastAct = [NoAct EXCEPT !.op = "write", !.f = f,
                                          !.v = v]])
  /\ UNCHANGED <<pVars, oVars>>

\* the flush scheduled by queueWatcher through nextTick runs
Flush ==
  /\ waiting
  /\ LET h == FlushSchedulerQueue(Begin(Rx))
     IN  Install([h EXCEPT !.updSince = Zero,
                           !.lastAct = [NoAct EXCEPT !.op = "flush", !.upd = updSince]])
  /\ UNCHANGED <<pVars, oVars>>

\* vm.<computed>, read outside of any evaluation (computedGetter)
ReadComputed(w) ==
  /\ IsLazy(w)
  /\ LET h0 == Begin(Rx)
         h  == IF h0.dirty[w] THEN Evaluate(h0, w) ELSE h0
     IN  Install([h EXCEPT !.lastAct = [NoAct EXCEPT !.op = "computed", !.w = w]])
  /\ UNCHANGED <<pVars, oVars>>

NextRx ==
  \/ \E f \in Fields : \E v \in ValuesOf(f) : Write(f, v)
  \/ Flush
  \/ \E w \in Watchers : ReadComputed(w)

(***************************************************************************)
(* Actions of the renderer                                                 *)
(***************************************************************************)
\* the render function throws, in a component that has no renderError
\* function ("none"), one that throws too ("throws"), or one that returns a
\* tree ("text")
RenderThrows ==
  [kind : {"throws"}, keys : {<<>>}, renderError : {"none", "throws", "text"}]

\* vm._vnode as the object it is: the node that has oid 3
SameObject(v) == IF v.def THEN [v EXCEPT !.oid = 3] ELSE v

\* createEmptyVNode()
CreateEmptyVNode == [TextNode("") EXCEPT !.isComment = TRUE]

RenderCatchBlank(c, old, st) == CreateEmptyVNode

\* the catch clause of vm._render(), after handleError(e, vm, "render"): what
\* renderError returns, or vm._vnode when there is no renderError or when it
\* throws; createEmptyVNode() stands in for a vm._vnode that is not a VNode
RenderCatch(c, old, st) ==
  IF c.renderError = "text" THEN Render([kind |-> "text", keys |-> <<>>], st)
  ELSE IF old.def THEN SameObject(old) ELSE CreateEmptyVNode

\* vm._render(): render.call(vm._renderProxy, vm.$createElement) in its try
\* block
RenderCall(c, old, st) ==
  IF c.kind = "throws" THEN RenderCatch(c, old, st) ELSE Render(c, st)

\* the calls of handleError made by vm._render()
RenderErrors(c) ==
  IF c.kind # "throws" THEN <<>>
  ELSE <<[w |-> 4, info |-> "render"]>>
         \o (IF c.renderError = "throws"
               THEN <<[w |-> 4, info |-> "renderError"]>> ELSE <<>>)

\* the patch is over: which object the tree is matters no more
Settled(p) ==
  [p EXCEPT !.out = IF @.def /\ @.oid = 3 THEN [@ EXCEPT !.oid = 0] ELSE @]

\* vm._update(vm._render()): the first call mounts on vm.$el, the later ones
\* patch the tree rendered before
VmUpdate(c) ==
  /\ ~isDestroyed
  /\ Updated(Settled(PatchFn(NewPatch,
                             IF c.kind = "throws" THEN SameObject(vnode) ELSE vnode,
                             RenderCall(c, vnode, staticTree),
                             IF vnode.def THEN NoElm ELSE El)),
             c, vnode)
  /\ errLog' = RenderErrors(c)
  /\ lastAct' = [NoAct EXCEPT !.op = "update",
                              !.v = IF c.kind = "throws" THEN c.renderError ELSE "-"]
  /\ UNCHANGED <<val, childOb, ob, subs, targetStack, getter, deps, newDeps,
                 depIds, newDepIds, value, dirty, active, queue, has, waiting,
                 flushing, elmText, updCalls, getCalls, cbCalls, reading,
                 lastRead, updSince>>
  /\ UNCHANGED <<isDestroyed, svVars, tvVars, lkVars, dfVars, rmVars, mtVars, lfVars, kaVars, obsVars, cbKind, sync, runLog, diag, thrown>>

RECURSIVE TeardownAll(_, _)
TeardownAll(h, ws) ==
  IF ws = <<>> THEN h ELSE TeardownAll(Teardown(h, Head(ws)), Tail(ws))

\* vm.$destroy(): the watchers are torn down, the render watcher first and
\* then vm._watchers from the last to the first, the root data loses one
\* owner, and the destroy hooks of the rendered tree are invoked
VmDestroy ==
  /\ ~isDestroyed
  /\ vnode.def
  /\ Install([TeardownAll(Begin(Rx), <<4, 4, 3, 2, 1>>) EXCEPT
                !.lastAct = [NoAct EXCEPT !.op = "destroy"]])
  /\ isDestroyed' = TRUE
  /\ vmCount' = [vmCount EXCEPT ![RootData] = @ - 1]
  /\ Patched(PatchFn(NewPatch, vnode, UndefV, NoElm), vnode, staticTree, vnode)
  /\ UNCHANGED <<svVars, tvVars, lkVars, dfVars, rmVars, mtVars, lfVars, kaVars, items, props, reactiveKeys, notifyCalls, warned, schedVars>>

NextPatch ==
  \/ \E c \in Renders \cup RenderThrows : VmUpdate(c)
  \/ VmDestroy

\* no call of sameVnode was made
SvIdle == svA = UndefV /\ svB = UndefV /\ svRes = "none"

\* no keep-alive was made
KaIdle ==
  /\ kaCache = <<>> /\ kaKeys = <<>> /\ kaVnode = <<>> /\ kaProps = <<>>
  /\ kaMade = 0 /\ kaDead = {} /\ kaSeen = <<>> /\ kaLast = <<>>

\* no tree of instances was made
LfIdle == lfParent = <<>> /\ lfOpts = <<>> /\ lf = <<>>

\* no tree of components is mounted
MtIdle ==
  /\ mtParent = <<>> /\ mtOthers = <<>> /\ mtUid = 0 /\ mtRenderId = <<>>
  /\ mtStack = <<>> /\ mtCreated = <<>>

\* no child is being removed
RmIdle ==
  /\ rmP = [dom |-> <<>>, log |-> <<>>] /\ rmElm = NoElm /\ rmListeners = 0
  /\ rmRegistered = 0 /\ rmCalls = 0 /\ rmOwed = {}

\* updateChildren is not running
DfIdle ==
  /\ dfU = [p |-> [err |-> FALSE], oldCh |-> <<>>, newCh |-> <<>>, os |-> 1,
            oe |-> 0, ns |-> 1, ne |-> 0, hasMap |-> FALSE, map |-> <<>>]
  /\ dfParent = NoElm /\ dfIters = 0 /\ dfState = "idle"

\* no lookup is made
LkIdle ==
  /\ lkOld = <<>> /\ lkNode = UndefV /\ lkStart = 1 /\ lkEnd = 0
  /\ lkRes = NotCalled

\* no value is being traversed
TvIdle ==
  /\ tvKids = [n \in TvNodes |-> <<>>] /\ tvOb = {} /\ tvStack = <<>>
  /\ tvSeen = {} /\ tvVisits = [n \in TvNodes |-> 0]

Init == InitRx /\ SvIdle /\ TvIdle /\ LkIdle /\ DfIdle /\ RmIdle /\ MtIdle /\ LfIdle /\ KaIdle /\ ObsIdle /\ SchedIdle

Next == NextRx

\* the reactivity engine: writes, flushes and reads of computed properties
Spec == Init /\ [][Next]_vars

\* the renderer: renders and patches of one mounted component
InitPatch ==
  /\ InitWith([w \in Watchers |-> IF IsLazy(w) THEN "ca" ELSE "aab_or_c"])
  /\ SvIdle /\ TvIdle /\ LkIdle /\ DfIdle /\ RmIdle /\ MtIdle /\ LfIdle /\ KaIdle /\ ObsIdle /\ SchedIdle

SpecPatch == InitPatch /\ [][NextPatch]_vars

(***************************************************************************)
(* Observed collections: field b of the data holds an array or a plain     *)
(* object; the patched array methods, Vue.set and Vue.delete are called.   *)
(***************************************************************************)
ItemVals == {"0"} \cup ItemObjs

ObsGetters == [w \in Watchers |-> CASE w = 1 -> "ca" [] w = 2 -> "b"
                                    [] OTHER -> "aab_or_c"]

\* data() returned { a: 0, b: bv, c: 0 }, bv being the array [0] or the
\* object { k1: 0 }, and initData made it reactive
BlankObs(bv) ==
  LET h0 == [Blank(ObsGetters) EXCEPT
               !.val["b"] = bv,
               !.items["arr"] = <<"0">>,
               !.props["o1"]["k1"] = "0"]
      h1 == Observe(h0, bv)
  IN  [h1 EXCEPT !.childOb["b"] = h1.ret,
                 !.reactiveKeys["o1"] = IF bv = "o1" THEN {"k1"} ELSE {},
                 !.ret = undefined]

InstallObs(h) ==
  /\ items' = h.items /\ props' = h.props /\ reactiveKeys' = h.reactiveKeys
  /\ vmCount' = h.vmCount /\ notifyCalls' = h.notifyCalls /\ warned' = h.warned

InitObs ==
  /\ \E bv \in {"arr", "o1"} :
       /\ InitFrom(BlankObs(bv))
       /\ items = BlankObs(bv).items /\ props = BlankObs(bv).props
       /\ reactiveKeys = BlankObs(bv).reactiveKeys
       /\ vmCount = BlankObs(bv).vmCount
  /\ notifyCalls = [d \in DepIds |-> 0] /\ warned = 0
  /\ SvIdle /\ TvIdle /\ LkIdle /\ DfIdle /\ RmIdle /\ MtIdle /\ LfIdle /\ KaIdle /\ SchedIdle

\* the calls of the patched methods that are made
ArrayCalls ==
  {[m |-> m, args |-> <<>>, start |-> 0, del |-> 0] :
     m \in {"pop", "shift", "sort", "reverse", "push"}}
  \cup {[m |-> m, args |-> <<x>>, start |-> 0, del |-> 0] :
          m \in {"push", "unshift"}, x \in ItemVals}
  \cup {[m |-> "push", args |-> <<"e1", "0">>, start |-> 0, del |-> 0]}
  \cup {[m |-> "splice", args |-> ins, start |-> st, del |-> n] :
          ins \in {<<>>, <<"e1">>}, st \in 0..MaxItems, n \in 0..1}

NotTooMany == \A w \in Watchers : updSince[w] < MaxWrites

\* a[c.m](...c.args), a being observed
ArrayCall(a, c) ==
  /\ a \in ob
  /\ NotTooMany
  /\ Len(Original(items[a], c)) <= MaxItems
  /\ LET h == Mutator(Begin(Rx), a, c)
     IN  /\ Install([h EXCEPT !.lastAct =
                       [NoAct EXCEPT !.op = "array", !.f = a, !.v = c.m,
                                     !.args = IF HasInserted(c) THEN c.args ELSE <<>>]])
         /\ InstallObs(h)
  /\ UNCHANGED <<pVars, svVars, tvVars, lkVars, dfVars, rmVars, mtVars, lfVars, kaVars, schedVars>>

\* the keys handed to set and del for a target
KeysFor(target) ==
  IF IsArray(target) THEN 0..(Len(items[target]) - 1)
  ELSE IF target \in {RootData, Vm} THEN {"c", "k1"}
  ELSE PropKeys

ValuesFor(target) ==
  IF IsArray(target) THEN {"e1"}
  ELSE IF target \in {RootData, Vm} THEN {"0", "1", "e1"}
  ELSE {"0", "1", "e1", "e2"}

\* the targets handed to set and del: the data, the component, and the
\* collection that field b holds
SetTargets == {RootData, Vm} \cup (IF Arrays \subseteq ob THEN Arrays ELSE {"o1"})

\* Vue.set(target, key, v)
SetKey(target, key, v) ==
  /\ NotTooMany
  /\ LET h == Set(Begin(Rx), target, key, v)
     IN  /\ Install([h EXCEPT !.lastAct =
                       [NoAct EXCEPT !.op = "set", !.f = target, !.key = key,
                                     !.v = v]])
         /\ InstallObs(h)
  /\ UNCHANGED <<pVars, svVars, tvVars, lkVars, dfVars, rmVars, mtVars, lfVars, kaVars, schedVars>>

\* Vue.delete(target, key)
DelKey(target, key) ==
  /\ NotTooMany
  /\ LET h == Del(Begin(Rx), target, key)
     IN  /\ Install([h EXCEPT !.lastAct =
                       [NoAct EXCEPT !.op = "del", !.f = target, !.key = key]])
         /\ InstallObs(h)
  /\ UNCHANGED <<pVars, svVars, tvVars, lkVars, dfVars, rmVars, mtVars, lfVars, kaVars, schedVars>>

\* the flush scheduled by queueWatcher through nextTick runs
FlushObs ==
  /\ waiting
  /\ LET h == FlushSchedulerQueue(Begin(Rx))
     IN  /\ Install([h EXCEPT !.updSince = Zero,
                              !.lastAct = [NoAct EXCEPT !.op = "flush",
                                                        !.upd = updSince]])
         /\ InstallObs(h)
  /\ UNCHANGED <<pVars, svVars, tvVars, lkVars, dfVars, rmVars, mtVars, lfVars, kaVars, schedVars>>

NextObs ==
  \/ \E a \in Arrays : \E c \in ArrayCalls : ArrayCall(a, c)
  \/ \E t \in SetTargets : \E k \in KeysFor(t) : \E v \in ValuesFor(t) : SetKey(t, k, v)
  \/ \E t \in SetTargets : \E k \in KeysFor(t) : DelKey(t, k)
  \/ FlushObs

SpecObs == InitObs /\ [][NextObs]_vars

(***************************************************************************)
(* The scheduler at work: user watchers whose getters and callbacks throw,  *)
(* a callback that writes a field, watchers torn down while queued          *)
(***************************************************************************)
\* The components that are made: the getters and the callbacks of their
\* watchers. The computed and the render watcher have no callback (noop).
SchedConfig(g1, g2, g3, k2, k3) ==
  [g |-> [w \in Watchers |-> CASE w = 1 -> g1 [] w = 2 -> g2 [] w = 3 -> g3
                                [] OTHER -> "aab_or_c"],
   k |-> [w \in Watchers |-> CASE w = 2 -> k2 [] w = 3 -> k3 [] OTHER -> "noop"],
   s |-> {3}]

\* the render function reads a, the computed property k and then b
NestedConfig(g1) ==
  [g |-> [w \in Watchers |-> CASE w = 1 -> g1 [] w = 4 -> "a_k_b" [] OTHER -> "b"],
   k |-> [w \in Watchers |-> "noop"], s |-> {3}]

\* no watcher is sync; the callback of watcher 2, which watches a, writes c,
\* which watcher 3 watches
LateConfig ==
  [g |-> [w \in Watchers |-> CASE w = 1 -> "ca" [] w = 2 -> "a" [] w = 3 -> "c"
                                [] OTHER -> "aab_or_c"],
   k |-> [w \in Watchers |-> IF w = 2 THEN "toggle" ELSE "noop"], s |-> {}]

\* vm.$watch(function () { this.a; return this.k }, cb, { sync: true }): the
\* watcher subscribes to field a before the watcher of k, which the read of k
\* evaluates for the first time
StaleConfig ==
  [g |-> [w \in Watchers |-> CASE w = 1 -> "ca" [] w = 3 -> "a_k" [] w = 2 -> "b"
                                [] OTHER -> "aab_or_c"],
   k |-> [w \in Watchers |-> "noop"], s |-> {3}]

SchedConfigs ==
  { SchedConfig("ca", "a_throws", "aab_or_c", "noop", "throw"),
    SchedConfig("ca", "aab_or_c", "a_throws", "toggle", "noop"),
    SchedConfig("a_throws", "aab_or_c", "aab_or_c", "throw", "noop"),
    SchedConfig("ca", "aab_or_c", "aab_or_c", "noop", "unwatch"),
    NestedConfig("ca"), NestedConfig("a_throws"), LateConfig, StaleConfig }

InstallSched(h) ==
  /\ cbKind' = h.cbKind /\ sync' = h.sync
  /\ errLog' = h.errLog /\ runLog' = h.runLog
  /\ diag' = h.diag /\ thrown' = h.thrown

InitSched ==
  /\ \E c \in SchedConfigs :
       /\ InitFrom([Blank(c.g) EXCEPT !.cbKind = c.k, !.sync = c.s])
       /\ cbKind = c.k /\ sync = c.s
  /\ errLog = <<>> /\ runLog = <<>> /\ diag = {} /\ thrown = NoWatcher
  /\ SvIdle /\ TvIdle /\ LkIdle /\ DfIdle /\ RmIdle /\ MtIdle /\ LfIdle /\ KaIdle /\ ObsIdle

\* vm.f = v, outside of any evaluation
SchedWrite(f, v) ==
  /\ NotTooMany
  /\ LET h == ReactiveSetter(Begin(Rx), f, v)
         h1 == [h EXCEPT !.lastAct = [NoAct EXCEPT !.op = "write", !.f = f, !.v = v]]
     IN  \E x \in {h1} : Install(x) /\ InstallSched(x)
  /\ UNCHANGED <<pVars, svVars, tvVars, lkVars, dfVars, rmVars, mtVars, lfVars, kaVars, obsVars>>

\* the flush scheduled by queueWatcher through nextTick runs
SchedFlush ==
  /\ waiting
  /\ LET h == FlushSchedulerQueue(Begin(Rx))
         h1 == [h EXCEPT !.updSince = Zero,
                         !.lastAct = [NoAct EXCEPT !.op = "flush", !.upd = updSince,
                                                   !.args = queue]]
     IN  \E x \in {h1} : Install(x) /\ InstallSched(x)
  /\ UNCHANGED <<pVars, svVars, tvVars, lkVars, dfVars, rmVars, mtVars, lfVars, kaVars, obsVars>>

\* vm.<computed>, read outside of any evaluation (computedGetter)
SchedRead(w) ==
  /\ IsLazy(w)
  /\ LET h0 == Begin(Rx)
         h  == IF h0.dirty[w] THEN Evaluate(h0, w) ELSE h0
         h1 == [h EXCEPT !.lastAct = [NoAct EXCEPT !.op = "computed", !.w = w]]
     IN  \E x \in {h1} : Install(x) /\ InstallSched(x)
  /\ UNCHANGED <<pVars, svVars, tvVars, lkVars, dfVars, rmVars, mtVars, lfVars, kaVars, obsVars>>

\* unwatchFn(), the function $watch returned: watcher.teardown()
Unwatch(w) ==
  /\ IsUser(w) /\ active[w]
  /\ LET h == Teardown(Begin(Rx), w)
         h1 == [h EXCEPT !.lastAct = [NoAct EXCEPT !.op = "unwatch", !.w = w]]
     IN  \E x \in {h1} : Install(x) /\ InstallSched(x)
  /\ UNCHANGED <<pVars, svVars, tvVars, lkVars, dfVars, rmVars, mtVars, lfVars, kaVars, obsVars>>

\* vm.$destroy() of a component whose tree has no destroy hook to invoke
SchedDestroy ==
  /\ ~isDestroyed
  /\ LET h == TeardownAll(Begin(Rx), <<4, 4, 3, 2, 1>>)
         h1 == [h EXCEPT !.lastAct = [NoAct EXCEPT !.op = "destroy"]]
     IN  \E x \in {h1} : Install(x) /\ InstallSched(x)
  /\ isDestroyed' = TRUE
  /\ vmCount' = [vmCount EXCEPT ![RootData] = @ - 1]
  /\ UNCHANGED <<vnode, staticTree, dom, plog, prevVnode, svVars, tvVars, lkVars, dfVars, rmVars, mtVars, lfVars, kaVars, items, props,
                 reactiveKeys, notifyCalls, warned>>

NextSched ==
  \/ \E f \in {"a", "c"} : \E v \in {"0", "1"} : SchedWrite(f, v)
  \/ SchedFlush
  \/ \E w \in Watchers : SchedRead(w)
  \/ \E w \in Watchers : Unwatch(w)
  \/ SchedDestroy

SpecSched == InitSched /\ [][NextSched]_vars

(***************************************************************************)
(* Calls of sameVnode                                                      *)
(***************************************************************************)
\* the async factories of the components: the second one failed (has .error)
Factories == {"f1", "f2"}
FactoryError(f) == f = "f2"

\* data.attrs.type as sameInputType reads it: "none" stands for false (data
\* or attrs is missing), "undefined" for attrs without a type
InputTypes == {"none", "undefined", "text", "number", "checkbox"}

\* The nodes handed to sameVnode: elements with and without key, data and
\* static flag, inputs of several types, a component placeholder, text
\* nodes, a comment, the placeholders of async components and the nodes
\* rendered for them once resolved.
SvElems ==
  {[Elem(t, k) EXCEPT !.data = d, !.isStatic = st] :
     t \in {"div", "vue-component-1-c"}, k \in {NoKey, 1}, d \in BOOLEAN,
     st \in BOOLEAN}

SvInputs ==
  {[Elem("input", NoKey) EXCEPT !.data = ty # "none", !.itype = ty] :
     ty \in InputTypes}
  \cup {[Elem("input", NoKey) EXCEPT !.data = TRUE]}

SvTexts == {TextNode(t) : t \in {"x", "y"}}

SvComment == [TextNode("") EXCEPT !.isComment = TRUE]

\* createAsyncPlaceholder: an empty comment node that carries the factory
SvPlaceholders ==
  {[SvComment EXCEPT !.isAsyncPlaceholder = TRUE, !.asyncFactory = f,
                     !.asyncError = FactoryError(f)] : f \in Factories}

\* the node of an async component, created from its factory
SvAsync ==
  {[Elem("vue-component-1-c", NoKey) EXCEPT !.data = TRUE, !.asyncFactory = f,
                                             !.asyncError = FactoryError(f)] :
     f \in Factories}

SvNodes ==
  SvElems \cup SvInputs \cup SvTexts \cup {SvComment} \cup SvPlaceholders
    \cup SvAsync

InitSame ==
  /\ InitWith([w \in Watchers |-> IF IsLazy(w) THEN "ca" ELSE "aab_or_c"])
  /\ svA \in SvNodes /\ svB \in SvNodes /\ svRes = "none"
  /\ TvIdle /\ LkIdle /\ DfIdle /\ RmIdle /\ MtIdle /\ LfIdle /\ KaIdle /\ ObsIdle /\ SchedIdle

\* sameVnode(svA, svB) is called
CallSameVnode ==
  /\ svRes = "none"
  /\ svRes' = (IF SameVnode(svA, svB) THEN "true" ELSE "false")
  /\ UNCHANGED <<rxVars, pVars, svA, svB, tvVars, lkVars, dfVars, rmVars, mtVars, lfVars, kaVars, obsVars, schedVars>>

NextSame == CallSameVnode

SpecSame == InitSame /\ [][NextSame]_vars

(***************************************************************************)
(* traverse.js: traverse and _traverse, one call or return per step        *)
(***************************************************************************)
\* the calls of _traverse in progress are at most MaxDepth deep
MaxDepth == 4
\* a collection has at most MaxKids elements
MaxKids == 2

\* what a collection holds: collections and a primitive
TvValues == TvNodes \cup {"0"}
TvLists == UNION {[1..n -> TvValues] : n \in 0..MaxKids}

\* (!isA && !isObject(val)) || Object.isFrozen(val) || val instanceof VNode
TvSkips(v) == v \notin TvNodes \/ v \in TvFrozen

\* _traverse(v, seen) up to its loop: return at once for a value that is
\* skipped and for a collection whose Dep id was seen, else add the Dep id
\* of an observed collection and start the loop at i = val.length
\* below are the calls in progress
TvEnter(v, below) ==
  IF TvSkips(v) \/ (v \in tvOb /\ v \in tvSeen)
    THEN /\ UNCHANGED <<tvSeen, tvVisits>>
         /\ tvStack' = below
    ELSE /\ tvSeen' = IF v \in tvOb THEN tvSeen \cup {v} ELSE tvSeen
         /\ tvVisits' = [tvVisits EXCEPT ![v] = @ + 1]
         /\ tvStack' = Append(below, [n |-> v, i |-> Len(tvKids[v])])

TvTop == tvStack[Len(tvStack)]

\* the value graphs: the frozen collection is empty and has no Observer
InitTraverse ==
  /\ InitWith([w \in Watchers |-> IF IsLazy(w) THEN "ca" ELSE "aab_or_c"])
  /\ tvKids \in {k \in [TvNodes -> TvLists] : \A n \in TvFrozen : k[n] = <<>>}
  /\ tvOb \in SUBSET (TvNodes \ TvFrozen)
  /\ tvStack = <<>> /\ tvSeen = {} /\ tvVisits = [n \in TvNodes |-> 0]
  /\ SvIdle /\ LkIdle /\ DfIdle /\ RmIdle /\ MtIdle /\ LfIdle /\ KaIdle /\ ObsIdle /\ SchedIdle

\* traverse(val): _traverse(val, seenObjects)
Traverse ==
  /\ tvStack = <<>> /\ tvVisits[TvRoot] = 0
  /\ TvEnter(TvRoot, <<>>)
  /\ UNCHANGED <<rxVars, pVars, svVars, tvKids, tvOb, lkVars, dfVars, rmVars, mtVars, lfVars, kaVars, obsVars, schedVars>>

\* while (i--) _traverse(val[i], seen): the next call
TvStep ==
  /\ tvStack # <<>> /\ TvTop.i > 0 /\ Len(tvStack) < MaxDepth
  /\ TvEnter(tvKids[TvTop.n][TvTop.i], [tvStack EXCEPT ![Len(tvStack)].i = @ - 1])
  /\ UNCHANGED <<rxVars, pVars, svVars, tvKids, tvOb, lkVars, dfVars, rmVars, mtVars, lfVars, kaVars, obsVars, schedVars>>

\* the loop of a call ended: it returns; when the first call returns,
\* traverse clears seenObjects
TvReturn ==
  /\ tvStack # <<>> /\ TvTop.i = 0
  /\ tvStack' = SubSeq(tvStack, 1, Len(tvStack) - 1)
  /\ tvSeen' = IF Len(tvStack) = 1 THEN {} ELSE tvSeen
  /\ UNCHANGED <<rxVars, pVars, svVars, tvKids, tvOb, tvVisits, lkVars, dfVars, rmVars, mtVars, lfVars, kaVars, obsVars, schedVars>>

NextTraverse == Traverse \/ TvStep \/ TvReturn

SpecTraverse == InitTraverse /\ [][NextTraverse]_vars

(***************************************************************************)
(* patch.js: the lookup of updateChildren, called on lists with duplicates *)
(***************************************************************************)
\* the old list has at most MaxOld children
MaxOld == 4

\* the children: keyed and keyless elements
LkNodes ==
  {Elem("div", 1), Elem("div", 2), Elem("span", 1), Elem("a", NoKey),
   Elem("b", NoKey)}

\* the handles of the old children are their places in the list
LkLists ==
  UNION {{[i \in 1..n |-> [s[i] EXCEPT !.elm = i]] : s \in [1..n -> LkNodes]} :
           n \in 1..MaxOld}

\* the loop is in its last branch: neither old-start nor old-end is the same
\* node as new-start
InitLookup ==
  /\ InitWith([w \in Watchers |-> IF IsLazy(w) THEN "ca" ELSE "aab_or_c"])
  /\ lkOld \in LkLists /\ lkNode \in LkNodes
  /\ lkStart \in DOMAIN lkOld /\ lkEnd \in DOMAIN lkOld /\ lkStart <= lkEnd
  /\ ~SameVnode(lkOld[lkStart], lkNode) /\ ~SameVnode(lkOld[lkEnd], lkNode)
  /\ lkRes = NotCalled
  /\ SvIdle /\ TvIdle /\ DfIdle /\ RmIdle /\ MtIdle /\ LfIdle /\ KaIdle /\ ObsIdle /\ SchedIdle

\* idxInOld = isDef(newStartVnode.key) ? oldKeyToIdx[newStartVnode.key]
\*                                      : findIdxInOld(...), oldKeyToIdx being
\* made by createKeyToOldIdx(oldCh, oldStartIdx, oldEndIdx)
CallLookup ==
  /\ lkRes = NotCalled
  /\ lkRes' = IdxInOld([oldCh |-> lkOld, newCh |-> <<lkNode>>, ns |-> 1,
                        os |-> lkStart, oe |-> lkEnd],
                       CreateKeyToOldIdx(lkOld, lkStart, lkEnd))
  /\ UNCHANGED <<rxVars, pVars, svVars, tvVars, lkOld, lkNode, lkStart, lkEnd,
                 dfVars, rmVars, mtVars, lfVars, kaVars, obsVars, schedVars>>

NextLookup == CallLookup

SpecLookup == InitLookup /\ [][NextLookup]_vars

(***************************************************************************)
(* patch.js: the while loop of updateChildren, one iteration at a time,    *)
(* on sibling lists that may hold a key twice                              *)
(***************************************************************************)
\* the sibling lists have at most MaxSib children
MaxSib == 3

DfNodes == {Elem("div", 1), Elem("a", NoKey)}

DfLists == UNION {[1..n -> DfNodes] : n \in 0..MaxSib}

\* the parent with the old children is mounted on El; updateChildren is
\* entered with its children and the new ones
DiffStart(p, newCh) ==
  /\ dfU = UpdateStart(p, p.out.children, newCh)
  /\ dfParent = p.out.elm

InitDiff ==
  /\ InitWith([w \in Watchers |-> IF IsLazy(w) THEN "ca" ELSE "aab_or_c"])
  /\ \E oldCh \in DfLists, newCh \in DfLists :
       DiffStart(PatchFn(NewPatch, UndefV,
                         VNode("div", NoKey, FALSE, TRUE, oldCh, NoText), El),
                 newCh)
  /\ dfIters = 0 /\ dfState = "loop"
  /\ SvIdle /\ TvIdle /\ LkIdle /\ RmIdle /\ MtIdle /\ LfIdle /\ KaIdle /\ ObsIdle /\ SchedIdle

\* while (oldStartIdx <= oldEndIdx && newStartIdx <= newEndIdx)
DiffRunning ==
  dfState = "loop" /\ dfU.os <= dfU.oe /\ dfU.ns <= dfU.ne

\* one iteration of the loop; sameVnode(undefined, newStartVnode) throws
DiffStep ==
  /\ DiffRunning
  /\ \E u \in {UpdateStep(dfU, dfParent, TRUE)} :
       /\ dfU' = u
       /\ dfState' = IF u.p.err THEN "threw" ELSE "loop"
  /\ dfIters' = dfIters + 1
  /\ UNCHANGED <<rxVars, pVars, svVars, tvVars, lkVars, dfParent, rmVars, mtVars, lfVars, kaVars,
                 obsVars, schedVars>>

\* the loop is left: the rest of the new children is added or the rest of
\* the old ones removed
DiffEnd ==
  /\ dfState = "loop" /\ ~DiffRunning
  /\ \E p \in {UpdateEnd(dfU, dfParent)} : dfU' = [dfU EXCEPT !.p = p]
  /\ dfState' = "ended"
  /\ UNCHANGED <<rxVars, pVars, svVars, tvVars, lkVars, dfParent, dfIters,
                 rmVars, mtVars, lfVars, kaVars, obsVars, schedVars>>

NextDiff == DiffStep \/ DiffEnd

\* the loop is not suspended: an iteration that can run does run
SpecDiff == InitDiff /\ [][NextDiff]_vars /\ WF_vars(NextDiff)

(***************************************************************************)
(* patch.js: removeAndInvokeRemoveHook, the remove hooks being free to     *)
(* call the callback of createRmCb later, or more than once                *)
(***************************************************************************)
\* the callback is invoked at most MaxExtra times more than it has listeners
MaxExtra == 2

RmLists == UNION {[1..n -> DfNodes] : n \in 1..MaxSib}

\* the listeners that removeAndInvokeRemoveHook registers for a node: the
\* remove hook of every module and the node's own hook or the direct call,
\* and the same again for the root of a nested component
RmListenersOf(comp) ==
  ((IF comp THEN {"inner"} ELSE {}) \cup {"outer"}) \X (Modules \cup {"own"})

RECURSIVE RmCalls(_, _, _, _)
\* rm() called k times, remove.listeners being n
RmCalls(p, childElm, n, k) ==
  IF k = 0 THEN p
  ELSE Once(LAMBDA q : RmCalls(q, childElm, n - 1, k - 1), RmCb(p, childElm, n))

InitRemove ==
  /\ InitWith([w \in Watchers |-> IF IsLazy(w) THEN "ca" ELSE "aab_or_c"])
  /\ \E ch \in RmLists :
       rmP = PatchFn(NewPatch, UndefV,
                     VNode("div", NoKey, FALSE, TRUE, ch, NoText), El)
  /\ rmElm = NoElm /\ rmListeners = 0 /\ rmRegistered = 0 /\ rmCalls = 0
  /\ rmOwed = {}
  /\ SvIdle /\ TvIdle /\ LkIdle /\ DfIdle /\ MtIdle /\ LfIdle /\ KaIdle /\ ObsIdle /\ SchedIdle

\* removeAndInvokeRemoveHook(ch) for the i-th child; comp: ch is the
\* placeholder of a component whose root has data; late: the hooks that keep
\* the callback and call it later, the others call it at once
RemoveAndInvoke(i, comp, late) ==
  /\ rmElm = NoElm
  /\ i \in DOMAIN rmP.out.children
  /\ late \subseteq RmListenersOf(comp)
  /\ \E ch \in {rmP.out.children[i]} :
       IF ch.data
         THEN /\ rmP' = RmCalls(rmP, ch.elm,
                                Cardinality(RmListenersOf(comp)),
                                Cardinality(RmListenersOf(comp) \ late))
              /\ rmElm' = ch.elm
              /\ rmRegistered' = Cardinality(RmListenersOf(comp))
              /\ rmCalls' = Cardinality(RmListenersOf(comp) \ late)
              /\ rmListeners' = Cardinality(late)
              /\ rmOwed' = late
         ELSE /\ ~comp /\ late = {}
              /\ rmP' = RemoveNode(rmP, ch.elm)
              /\ rmElm' = ch.elm
              /\ UNCHANGED <<rmListeners, rmRegistered, rmCalls, rmOwed>>
  /\ UNCHANGED <<rxVars, pVars, svVars, tvVars, lkVars, dfVars, mtVars, lfVars, kaVars, obsVars,
                 schedVars>>

\* remove(): if (--remove.listeners === 0) removeNode(childElm)
Rm ==
  /\ rmP' = RmCb(rmP, rmElm, rmListeners)
  /\ rmListeners' = rmListeners - 1
  /\ rmCalls' = rmCalls + 1

\* a hook that kept the callback calls it
RmLate(l) ==
  /\ l \in rmOwed
  /\ Rm
  /\ rmOwed' = rmOwed \ {l}
  /\ UNCHANGED <<rxVars, pVars, svVars, tvVars, lkVars, dfVars, mtVars, lfVars, kaVars, rmElm,
                 rmRegistered, obsVars, schedVars>>

\* a hook calls the callback once more than it should
RmAgain ==
  /\ rmRegistered > 0
  /\ rmCalls < rmRegistered + MaxExtra
  /\ Rm
  /\ UNCHANGED <<rxVars, pVars, svVars, tvVars, lkVars, dfVars, mtVars, lfVars, kaVars, rmElm,
                 rmRegistered, rmOwed, obsVars, schedVars>>

NextRemove ==
  \/ \E i \in 1..MaxSib, comp \in BOOLEAN,
        late \in SUBSET RmListenersOf(TRUE) : RemoveAndInvoke(i, comp, late)
  \/ \E l \in RmListenersOf(TRUE) : RmLate(l)
  \/ RmAgain

SpecRemove == InitRemove /\ [][NextRemove]_vars

(***************************************************************************)
(* lifecycle.js, watcher.js, create-component.js: a tree of components is  *)
(* mounted; the first render of a component creates and mounts its         *)
(* children                                                                *)
(***************************************************************************)
\* the tree has MaxVm components
MaxVm == 4

Vms == 1..MaxVm
NoVm == 0

\* the components above c, the tree being par; the chains are no longer
\* than MaxVm
RECURSIVE AncestorsWithin(_, _, _)
AncestorsWithin(par, c, n) ==
  IF n = 0 \/ par[c] = NoVm THEN {}
  ELSE {par[c]} \cup AncestorsWithin(par, par[c], n - 1)

Ancestors(par, c) == AncestorsWithin(par, c, MaxVm)

\* the trees over Vms: one root, every other component below it
Trees ==
  {par \in [Vms -> Vms \cup {NoVm}] :
     /\ Cardinality({c \in Vms : par[c] = NoVm}) = 1
     /\ \A c \in Vms : c \notin Ancestors(par, c)
     /\ \A c \in Vms : par[c] # NoVm =>
          \E r \in Ancestors(par, c) : par[r] = NoVm}

\* m holds uid, the render watcher ids, the stack and the ids made
Mt == [uid |-> mtUid, renderId |-> mtRenderId, stack |-> mtStack,
       created |-> mtCreated]

InstallMt(m) ==
  /\ mtUid' = m.uid /\ mtRenderId' = m.renderId /\ mtStack' = m.stack
  /\ mtCreated' = m.created

RECURSIVE InitState(_, _)
\* initState(vm): initComputed and initWatch make n watchers, this.id = ++uid
InitState(m, n) ==
  IF n = 0 THEN m
  ELSE InitState([m EXCEPT !.uid = @ + 1, !.created = Append(@, m.uid + 1)],
                 n - 1)

WatcherCtorSharedId(m, vm) ==
  [m EXCEPT !.renderId[vm] = m.uid + 1,
            !.created = Append(@, m.uid + 1),
            !.stack = Append(@, vm)]

\* new Watcher(vm, updateComponent, noop, options, true): this.id = ++uid,
\* and at the end of the constructor this.get() is entered
WatcherCtor(m, vm) ==
  [m EXCEPT !.uid = @ + 1,
            !.renderId[vm] = m.uid + 1,
            !.created = Append(@, m.uid + 1),
            !.stack = Append(@, vm)]

\* new Ctor(options) runs _init, that is initState, and $mount runs
\* mountComponent
InitAndMount(m, vm) == WatcherCtor(InitState(m, mtOthers[vm]), vm)

InitMount ==
  /\ InitWith([w \in Watchers |-> IF IsLazy(w) THEN "ca" ELSE "aab_or_c"])
  /\ mtParent \in Trees
  /\ mtOthers \in [Vms -> 0..1]
  /\ mtUid = 0 /\ mtRenderId = [c \in Vms |-> 0]
  /\ mtStack = <<>> /\ mtCreated = <<>>
  /\ SvIdle /\ TvIdle /\ LkIdle /\ DfIdle /\ RmIdle /\ LfIdle /\ KaIdle /\ ObsIdle /\ SchedIdle

MtFrame ==
  UNCHANGED <<rxVars, pVars, svVars, tvVars, lkVars, dfVars, rmVars, mtParent,
              mtOthers, lfVars, kaVars, obsVars, schedVars>>

\* new Vue(options).$mount(el) of the root
MountRoot ==
  /\ mtUid = 0
  /\ \E r \in Vms : mtParent[r] = NoVm /\ InstallMt(InitAndMount(Mt, r))
  /\ MtFrame

\* the patch of the component in its first render reaches the placeholder
\* of its next child: componentVNodeHooks.init creates and mounts it
InitHook ==
  /\ mtStack # <<>>
  /\ \E c \in Vms :
       /\ mtParent[c] = mtStack[Len(mtStack)] /\ mtRenderId[c] = 0
       /\ \A d \in Vms : (mtParent[d] = mtParent[c] /\ mtRenderId[d] = 0) => c <= d
       /\ InstallMt(InitAndMount(Mt, c))
  /\ MtFrame

\* the first get() of the render watcher returns: every child is mounted
GetReturns ==
  /\ mtStack # <<>>
  /\ \A c \in Vms : mtParent[c] = mtStack[Len(mtStack)] => mtRenderId[c] # 0
  /\ InstallMt([Mt EXCEPT !.stack = SubSeq(@, 1, Len(@) - 1)])
  /\ MtFrame

NextMount == MountRoot \/ InitHook \/ GetReturns

SpecMount == InitMount /\ [][NextMount]_vars

(***************************************************************************)
(* The life of the instances of a tree: initLifecycle, the insert and the   *)
(* destroy hook of a component placeholder, activateChildComponent,         *)
(* deactivateChildComponent and $destroy                                    *)
(***************************************************************************)
MaxInst == 3
Insts == 1..MaxInst
\* how many calls of $destroy can be in progress before the call stack of the
\* engine is exhausted
MaxStack == 2

\* vm.$parent of every instance: an instance is made while its parent renders
LfTrees ==
  {par \in [Insts -> Insts \cup {NoVm}] :
     par[1] = NoVm /\ \A c \in Insts \ {1} : par[c] \in 1..(c - 1)}

\* the hooks an option object may give; "none": no hook calls $destroy
DestroyHooks == {"beforeDestroy", "destroyed"}

\* before the first instance is made
LfBlank ==
  [created |-> 0,
   children |-> [c \in Insts |-> <<>>],
   inactive |-> [c \in Insts |-> "null"],
   directInactive |-> [c \in Insts |-> FALSE],
   isBeingDestroyed |-> [c \in Insts |-> FALSE],
   isDestroyed |-> [c \in Insts |-> FALSE],
   hooks |-> <<>>,
   last |-> [c \in Insts |-> "none"],
   calls |-> [c \in Insts |-> [h \in DestroyHooks |-> 0]],
   overflow |-> FALSE]

\* the hooks "activated" and "deactivated" that l.hooks holds for instance c
ActivationsOf(l, c) ==
  SelectSeq(l.hooks, LAMBDA e : e.vm = c /\ e.hook \in {"activated", "deactivated"})

\* the state when an operation begins: the hooks of the operation before are
\* forgotten, but for the last activation hook of every instance
LfBegin ==
  [lf EXCEPT !.hooks = <<>>,
             !.last = [c \in Insts |->
                         IF ActivationsOf(lf, c) = <<>> THEN lf.last[c]
                         ELSE ActivationsOf(lf, c)[Len(ActivationsOf(lf, c))].hook]]

\* callHook(vm, hook), for a hook that does nothing to the tree
CallHook(l, vm, hook) == [l EXCEPT !.hooks = Append(@, [vm |-> vm, hook |-> hook])]

\* initLifecycle(vm)
InitLifecycle(l, vm) ==
  [l EXCEPT !.created = vm,
            !.children = IF lfParent[vm] = NoVm THEN @
                         ELSE [@ EXCEPT ![lfParent[vm]] = Append(@, vm)],
            !.inactive[vm] = "null",
            !.directInactive[vm] = FALSE,
            !.isBeingDestroyed[vm] = FALSE,
            !.isDestroyed[vm] = FALSE]

\* isInInactiveTree(vm)
IsInInactiveTree(l, vm) ==
  \E a \in Ancestors(lfParent, vm) : l.inactive[a] = "true"

RECURSIVE ActivateChildComponent(_, _, _)
RECURSIVE ActivateChildren(_, _, _)
RECURSIVE DeactivateChildComponent(_, _, _)
RECURSIVE DeactivateChildren(_, _, _)
RECURSIVE Destroy(_, _, _)
RECURSIVE DestroyRendered(_, _, _, _)

ActivateChildren(l, ch, i) ==
  IF i > Len(ch) THEN l
  ELSE Once(LAMBDA x : ActivateChildren(x, ch, i + 1),
            ActivateChildComponent(l, ch[i], FALSE))

\* the last statement of activateChildComponent
Activate(l, vm) ==
  IF l.inactive[vm] \in {"true", "null"}
    THEN Once(LAMBDA x : CallHook(x, vm, "activated"),
              ActivateChildren([l EXCEPT !.inactive[vm] = "false"],
                               l.children[vm], 1))
    ELSE l

\* an activation that does not look at the ancestors
ActivateChildComponentAnywhere(l, vm, direct) ==
  IF direct THEN Activate([l EXCEPT !.directInactive[vm] = FALSE], vm)
  ELSE IF l.directInactive[vm] THEN l
  ELSE Activate(l, vm)

\* activateChildComponent(vm, direct)
ActivateChildComponent(l, vm, direct) ==
  IF direct
    THEN IF IsInInactiveTree(l, vm) THEN [l EXCEPT !.directInactive[vm] = FALSE]
         ELSE Activate([l EXCEPT !.directInactive[vm] = FALSE], vm)
  ELSE IF l.directInactive[vm] THEN l
  ELSE Activate(l, vm)

DeactivateChildren(l, ch, i) ==
  IF i > Len(ch) THEN l
  ELSE Once(LAMBDA x : DeactivateChildren(x, ch, i + 1),
            DeactivateChildComponent(l, ch[i], FALSE))

\* a deactivation that does not look at vm._inactive
DeactivateAgain(l, vm) ==
  Once(LAMBDA x : CallHook(x, vm, "deactivated"),
       DeactivateChildren([l EXCEPT !.inactive[vm] = "true"], l.children[vm], 1))

\* the last statement of deactivateChildComponent
Deactivate(l, vm) ==
  IF l.inactive[vm] # "true"
    THEN Once(LAMBDA x : CallHook(x, vm, "deactivated"),
              DeactivateChildren([l EXCEPT !.inactive[vm] = "true"],
                                 l.children[vm], 1))
    ELSE l

\* deactivateChildComponent(vm, direct)
DeactivateChildComponent(l, vm, direct) ==
  IF direct
    THEN IF IsInInactiveTree(l, vm) THEN [l EXCEPT !.directInactive[vm] = TRUE]
         ELSE Deactivate([l EXCEPT !.directInactive[vm] = TRUE], vm)
  ELSE Deactivate(l, vm)

\* componentVNodeHooks.destroy(vnode), vnode being the placeholder of c
PlaceholderDestroy(l, c, fuel) ==
  IF l.isDestroyed[c] THEN l
  ELSE IF c \in lfOpts.keepAlive THEN DeactivateChildComponent(l, c, TRUE)
  ELSE Destroy(l, c, fuel)

\* vm.__patch__(vm._vnode, null): the destroy hook of every placeholder of
\* the rendered tree, ch being the instances of the placeholders
DestroyRendered(l, ch, i, fuel) ==
  IF i > Len(ch) THEN l
  ELSE Once(LAMBDA x : DestroyRendered(x, ch, i + 1, fuel),
            PlaceholderDestroy(l, ch[i], fuel))

\* callHook(vm, hook) of a destroy hook: the hook the options name calls
\* vm.$destroy(); with the call stack exhausted the call throws, and the
\* exception is handled where the hook was invoked
CallDestroyHook(l, vm, hook, fuel) ==
  Once(LAMBDA l1 : IF lfOpts.reenter # hook THEN l1
                   ELSE IF fuel = 0 THEN [l1 EXCEPT !.overflow = TRUE]
                   ELSE Destroy(l1, vm, fuel - 1),
       [CallHook(l, vm, hook) EXCEPT !.calls[vm][hook] = @ + 1])

\* remove(parent.$children, vm)
RemoveFromParent(l, vm) ==
  IF lfParent[vm] # NoVm /\ ~l.isBeingDestroyed[lfParent[vm]]
    THEN [l EXCEPT !.children[lfParent[vm]] = SelectSeq(@, LAMBDA c : c # vm)]
    ELSE l

\* $destroy with the flag set before the hook is called
DestroyFlagFirst(l, vm, fuel) ==
  IF l.isBeingDestroyed[vm] THEN l
  ELSE Once(LAMBDA l4 : CallDestroyHook(l4, vm, "destroyed", fuel),
       Once(LAMBDA l3 : DestroyRendered(l3, l3.children[vm], 1, fuel),
       Once(LAMBDA l1 : [RemoveFromParent(l1, vm) EXCEPT !.isDestroyed[vm] = TRUE],
            CallDestroyHook([l EXCEPT !.isBeingDestroyed[vm] = TRUE],
                            vm, "beforeDestroy", fuel))))

\* vm.$destroy()
Destroy(l, vm, fuel) ==
  IF l.isBeingDestroyed[vm] THEN l
  ELSE Once(LAMBDA l4 : CallDestroyHook(l4, vm, "destroyed", fuel),
       Once(LAMBDA l3 : DestroyRendered(l3, l3.children[vm], 1, fuel),
       Once(LAMBDA l1 : [RemoveFromParent([l1 EXCEPT !.isBeingDestroyed[vm] = TRUE], vm)
                           EXCEPT !.isDestroyed[vm] = TRUE],
            CallDestroyHook(l, vm, "beforeDestroy", fuel))))

InitLife ==
  /\ InitWith([w \in Watchers |-> IF IsLazy(w) THEN "ca" ELSE "aab_or_c"])
  /\ lfParent \in LfTrees
  /\ lfOpts \in [keepAlive : SUBSET (Insts \ {1}),
                 reenter : DestroyHooks \cup {"none"}]
  /\ lf = LfBlank
  /\ SvIdle /\ TvIdle /\ LkIdle /\ DfIdle /\ RmIdle /\ MtIdle /\ KaIdle /\ ObsIdle /\ SchedIdle

LfFrame ==
  UNCHANGED <<rxVars, pVars, svVars, tvVars, lkVars, dfVars, rmVars, mtVars,
              lfParent, lfOpts, kaVars, obsVars, schedVars>>

\* the instances that were made
Created == 1..lf.created

\* new Vue(options) while the parent renders for the first time: the
\* instance is made and, when it is kept alive, the insert hook of its
\* placeholder activates it
LfCreate ==
  /\ lf.created < MaxInst
  /\ \E vm \in {lf.created + 1} :
       /\ lfParent[vm] # NoVm => ~lf.isDestroyed[lfParent[vm]]
       /\ \E l \in {InitLifecycle(LfBegin, vm)} :
            lf' = IF vm \in lfOpts.keepAlive
                    THEN ActivateChildComponent(l, vm, TRUE) ELSE l
  /\ LfFrame

\* componentVNodeHooks.insert(vnode): a cached instance is rendered again
LfInsert(vm) ==
  /\ vm \in Created /\ vm \in lfOpts.keepAlive
  /\ ~lf.isDestroyed[vm] /\ ~lf.isDestroyed[lfParent[vm]]
  /\ lf' = ActivateChildComponent(LfBegin, vm, TRUE)
  /\ LfFrame

\* the parent renders without the placeholder of vm: its destroy hook
LfRemove(vm) ==
  /\ vm \in Created /\ lfParent[vm] # NoVm
  /\ ~lf.isDestroyed[lfParent[vm]]
  /\ lf' = PlaceholderDestroy(LfBegin, vm, MaxStack)
  /\ LfFrame

\* vm.$destroy(), called from outside
LfDestroy(vm) ==
  /\ vm \in Created
  /\ lf' = Destroy(LfBegin, vm, MaxStack)
  /\ LfFrame

NextLife ==
  \/ LfCreate
  \/ \E vm \in Insts : LfInsert(vm)
  \/ \E vm \in Insts : LfRemove(vm)
  \/ \E vm \in Insts : LfDestroy(vm)

SpecLife == InitLife /\ [][NextLife]_vars

(***************************************************************************)
(* components/keep-alive.js: the cache of one <keep-alive>, with the patch  *)
(* of its placeholder                                                       *)
(***************************************************************************)
\* the largest value of the prop max
MaxCache == 2
\* how many component instances may be made
MaxMade == 3

\* the names of the components the slot may hold; the tag of a placeholder,
\* vue-component-<cid>-<name>, is one per component
KaNames == {"a", "b"}
NoneKey == "none"

NoVnode == [name |-> "none", key |-> NoneKey, inst |-> 0, keepAlive |-> FALSE]

\* the placeholder the parent hands to the default slot: <a/>, <a key=1/>,
\* <a key=2/> or <b/>
KaSlot(name, key) == [name |-> name, key |-> key, inst |-> 0, keepAlive |-> FALSE]
KaSlots == {KaSlot("a", NoneKey), KaSlot("a", "1"), KaSlot("a", "2"),
            KaSlot("b", NoneKey)}

\* the key of the cache: vnode.key, or cid::tag of the component
CacheKey(v) == IF v.key = NoneKey THEN v.name ELSE v.key
CacheKeys == {CacheKey(v) : v \in KaSlots}

\* include and exclude: undefined, or an array of names
NoPattern == [on |-> FALSE, names |-> {}]
Patterns == {NoPattern} \cup {[on |-> TRUE, names |-> {n}] : n \in KaNames}

\* matches(pattern, name); an undefined pattern matches nothing
KaMatches(pattern, name) == pattern.on /\ name \in pattern.names

\* remove(arr, item) of shared/util, for an array without duplicates
RemoveItem(arr, item) == SelectSeq(arr, LAMBDA x : x # item)

Ka ==
  [cache |-> kaCache, keys |-> kaKeys, vnode |-> kaVnode, made |-> kaMade,
   dead |-> kaDead, seen |-> kaSeen, drops |-> <<>>, out |-> NoVnode,
   miss |-> FALSE]

InstallKa(k, last) ==
  /\ kaCache' = k.cache /\ kaKeys' = k.keys /\ kaVnode' = k.vnode
  /\ kaMade' = k.made /\ kaDead' = k.dead /\ kaSeen' = k.seen
  /\ kaLast' = [last EXCEPT !.drops = k.drops]

\* pruneCacheEntry that destroys the instance of every entry but the one of
\* the placeholder rendered
PruneCacheEntryByInstance(k, key, current) ==
  LET cached == k.cache[key]
  IN  [k EXCEPT !.dead = IF cached # NoVnode /\ cached.inst # current.inst
                           THEN @ \cup {cached.inst} ELSE @,
                !.drops = IF cached # NoVnode
                            THEN Append(@, [inst |-> cached.inst, key |-> key,
                                            current |-> current.inst])
                            ELSE @,
                !.cache[key] = NoVnode,
                !.keys = RemoveItem(@, key),
                !.seen = RemoveItem(@, key)]

\* pruneCacheEntry(cache, key, keys, current)
PruneCacheEntry(k, key, current) ==
  LET cached == k.cache[key]
  IN  [k EXCEPT !.dead = IF cached # NoVnode
                            /\ (current = NoVnode \/ cached.name # current.name)
                           THEN @ \cup {cached.inst} ELSE @,
                !.drops = IF cached # NoVnode
                            THEN Append(@, [inst |-> cached.inst, key |-> key,
                                            current |-> current.inst])
                            ELSE @,
                !.cache[key] = NoVnode,
                !.keys = RemoveItem(@, key),
                !.seen = RemoveItem(@, key)]

\* pruneCache(keepAliveInstance, filter): the filter is
\* name => matches(pat, name) for include (incl) and its negation for exclude
RECURSIVE PruneCacheFrom(_, _, _, _, _)
PruneCacheFrom(k, todo, pat, incl, current) ==
  IF todo = {} THEN k
  ELSE LET key == CHOOSE x \in todo : TRUE
       IN  Once(LAMBDA k1 : PruneCacheFrom(k1, todo \ {key}, pat, incl, current),
                IF /\ k.cache[key] # NoVnode
                   /\ KaMatches(pat, k.cache[key].name) # incl
                  THEN PruneCacheEntry(k, key, current) ELSE k)

PruneCache(k, pat, incl) == PruneCacheFrom(k, CacheKeys, pat, incl, k.vnode)

\* the history of the lookups: key was rendered now
Seen(k, key) == [k EXCEPT !.seen = Append(RemoveItem(@, key), key)]

\* render(), the key being cached, without making it the freshest
KaHitKeepsOrder(k, v, key) ==
  [Seen(k, key) EXCEPT !.out = [v EXCEPT !.inst = k.cache[key].inst, !.keepAlive = TRUE]]

\* render(), the key being cached: the instance of the cache is taken
\* and the key made the freshest
KaHit(k, v, key) ==
  [Seen(k, key) EXCEPT !.keys = Append(RemoveItem(@, key), key),
                       !.out = [v EXCEPT !.inst = k.cache[key].inst,
                                         !.keepAlive = TRUE]]

\* render(), the key not being cached: the placeholder is cached and the
\* oldest entry pruned when there are more than max
KaMiss(k, v, key) ==
  LET k1 == [Seen(k, key) EXCEPT !.cache[key] = [v EXCEPT !.keepAlive = TRUE],
                                 !.keys = Append(@, key),
                                 !.out = [v EXCEPT !.keepAlive = TRUE],
                                 !.miss = TRUE]
  IN  IF kaProps.max # 0 /\ Len(k1.keys) > kaProps.max
        THEN PruneCacheEntry(k1, k1.keys[1], k1.vnode)
        ELSE k1

\* render() of the keep-alive, v being the placeholder in the slot and prp
\* the props include and exclude: k.out is the node returned
KaRenderFn(k, v, prp) ==
  IF \/ (prp.include.on /\ ~KaMatches(prp.include, v.name))
     \/ (prp.exclude.on /\ KaMatches(prp.exclude, v.name))
    THEN [k EXCEPT !.out = v]
  ELSE IF k.cache[CacheKey(v)] # NoVnode THEN KaHit(k, v, CacheKey(v))
  ELSE KaMiss(k, v, CacheKey(v))

\* the placeholder vnode got its instance: the cache holds the same object
\* when render() cached it
WithInstance(k, v, inst) ==
  [k EXCEPT !.vnode = [v EXCEPT !.inst = inst],
            !.cache = IF k.miss /\ @[CacheKey(v)] # NoVnode
                        THEN [@ EXCEPT ![CacheKey(v)].inst = inst] ELSE @]

\* componentVNodeHooks.init(vnode): a kept-alive placeholder that has a live
\* instance keeps it, any other gets a new one
KaInit(k, v) ==
  IF v.inst # 0 /\ v.inst \notin k.dead /\ v.keepAlive
    THEN WithInstance(k, v, v.inst)
    ELSE WithInstance([k EXCEPT !.made = @ + 1], v, k.made + 1)

\* componentVNodeHooks.destroy(vnode)
KaDestroyHook(k, old) ==
  IF old.inst \in k.dead \/ old.keepAlive THEN k
  ELSE [k EXCEPT !.dead = @ \cup {old.inst}]

\* vm._update(vnode) of the keep-alive: vm._vnode = vnode and the patch of
\* the placeholder rendered before against the new one
KaUpdate(k) ==
  LET old == k.vnode
      v   == k.out
  IN  IF old = NoVnode THEN KaInit(k, v)
      ELSE IF old.key = v.key /\ old.name = v.name
        THEN WithInstance(k, v, old.inst)
      ELSE Once(LAMBDA k1 : KaDestroyHook(k1, old), KaInit(k, v))

\* updateComponent of the keep-alive
KaRerender(k, v, prp) == Once(LAMBDA k1 : KaUpdate(k1), KaRenderFn(k, v, prp))

KaBlank == [c \in CacheKeys |-> NoVnode]
NoOp == [op |-> "none", key |-> NoneKey, kind |-> "none", drops |-> <<>>]

\* created()
InitKeep ==
  /\ InitWith([w \in Watchers |-> IF IsLazy(w) THEN "ca" ELSE "aab_or_c"])
  /\ kaCache = KaBlank /\ kaKeys = <<>> /\ kaVnode = NoVnode
  /\ kaProps \in [max : 1..MaxCache, include : {NoPattern}, exclude : {NoPattern}]
  /\ kaMade = 0 /\ kaDead = {} /\ kaSeen = <<>> /\ kaLast = NoOp
  /\ SvIdle /\ TvIdle /\ LkIdle /\ DfIdle /\ RmIdle /\ MtIdle /\ LfIdle /\ ObsIdle /\ SchedIdle

KaFrame ==
  UNCHANGED <<rxVars, pVars, svVars, tvVars, lkVars, dfVars, rmVars, mtVars,
              lfVars, obsVars, schedVars>>

\* the keep-alive was not destroyed
KaLive == kaLast.op # "destroy"

RenderKind(k, v) ==
  IF ~k.out.keepAlive THEN "plain" ELSE IF k.miss THEN "miss" ELSE "hit"

\* the parent renders with placeholder v in the slot: the keep-alive renders
\* and patches
KaRender(v) ==
  /\ KaLive
  /\ \E k \in {KaRerender(Ka, v, kaProps)} :
       /\ k.made <= MaxMade
       /\ InstallKa(k, [NoOp EXCEPT !.op = "render", !.key = CacheKey(v),
                                    !.kind = RenderKind(k, v)])
  /\ UNCHANGED kaProps
  /\ KaFrame

\* the parent renders with another value of include and v in the slot: the
\* render watcher of the keep-alive runs, and then the watcher of include,
\* which mounted() made after it
KaSetInclude(pat, v) ==
  /\ KaLive /\ pat # kaProps.include
  /\ \E prp \in {[kaProps EXCEPT !.include = pat]} :
       /\ \E k \in {PruneCache(KaRerender(Ka, v, prp), pat, TRUE)} :
            /\ k.made <= MaxMade
            /\ InstallKa(k, [NoOp EXCEPT !.op = "include", !.key = CacheKey(v)])
       /\ kaProps' = prp
  /\ KaFrame

\* the same for exclude
KaSetExclude(pat, v) ==
  /\ KaLive /\ pat # kaProps.exclude
  /\ \E prp \in {[kaProps EXCEPT !.exclude = pat]} :
       /\ \E k \in {PruneCache(KaRerender(Ka, v, prp), pat, FALSE)} :
            /\ k.made <= MaxMade
            /\ InstallKa(k, [NoOp EXCEPT !.op = "exclude", !.key = CacheKey(v)])
       /\ kaProps' = prp
  /\ KaFrame

\* destroyed(): every entry is pruned, no placeholder being current
RECURSIVE KaDestroyed(_, _)
KaDestroyed(k, todo) ==
  IF todo = {} THEN k
  ELSE LET key == CHOOSE x \in todo : TRUE
       IN  Once(LAMBDA k1 : KaDestroyed(k1, todo \ {key}),
                PruneCacheEntry(k, key, NoVnode))

\* $destroy() of the keep-alive: the destroy hook of the placeholder
\* rendered, then the destroyed hook
KaDestroy ==
  /\ KaLive /\ kaVnode # NoVnode
  /\ \E k \in {KaDestroyed(KaDestroyHook(Ka, kaVnode), CacheKeys)} :
       InstallKa(k, [NoOp EXCEPT !.op = "destroy"])
  /\ UNCHANGED kaProps
  /\ KaFrame

NextKeep ==
  \/ \E v \in KaSlots : KaRender(v)
  \/ \E pat \in Patterns : \E v \in KaSlots : KaSetInclude(pat, v)
  \/ \E pat \in Patterns : \E v \in KaSlots : KaSetExclude(pat, v)
  \/ KaDestroy

SpecKeep == InitKeep /\ [][NextKeep]_vars

(***************************************************************************)
(* Properties of the reactivity engine                                     *)
(***************************************************************************)
LastWrite(a) == a.op = "write"
\* the write of the step changes the field: the value written differs from
\* the one stored (the values are compared as the model names them, so NaN
\* over NaN counts as no change)
Changes(a, before) == LastWrite(a) /\ a.v # before[a.f]

\* C1: one write of a different value to a field f calls update() exactly
\* once on every watcher whose latest evaluation read f, however often it
\* read it; a watcher occurs at most once in the subscriber list of a Dep.
C1_UpdateOnce ==
  [][/\ \A d \in DepIds : \A w \in Watchers : Count(w, subs'[d]) <= 1
     /\ Changes(lastAct', val) =>
          \A w \in Watchers :
            active[w] /\ lastAct'.f \in lastRead[w] => updCalls'[w] = 1]_vars

\* a watcher whose evaluator reads a twice was notified once by a write to a
C1_Witness ==
  /\ lastAct.op = "write" /\ lastAct.f = "a"
  /\ \E w \in Watchers :
       /\ getter[w] = "aab_or_c" /\ ~IsSync(w)
       /\ updCalls[w] = 1 /\ Count(w, subs["a"]) = 1

\* C2: when get() completes the watcher is subscribed to no Dep it did not
\* read in that evaluation, and a write to a field the latest evaluation did
\* not read does not call the watcher's update().
C2_StaleUnsubscribed ==
  [][/\ \A w \in Watchers : \A d \in DepIds :
          w \in Range(subs'[d]) => d \in lastRead'[w]
     /\ LastWrite(lastAct') =>
          \A w \in Watchers :
            lastAct'.f \notin lastRead[w] => updCalls'[w] = 0]_vars

\* b was read at construction (a was 0) and not in the latest evaluation; b
\* is written, a watcher of b is notified and the one that dropped b is not
C2_Witness ==
  /\ lastAct.op = "write" /\ lastAct.f = "b"
  /\ \E w \in Watchers :
       /\ getter[w] = "aab_or_c" /\ ~IsSync(w)
       /\ "b" \notin lastRead[w] /\ "c" \in lastRead[w]
       /\ updCalls[w] = 0
  /\ \E w \in Watchers : updCalls[w] = 1

\* C3: a write of the value already stored (strictly equal, or NaN over NaN)
\* changes neither the stored values, the child observers, the subscriber
\* lists, the watchers nor the queue, and calls no update().
C3_SameValueNoOp ==
  [][LastWrite(lastAct') /\ ~Changes(lastAct', val) =>
       /\ UNCHANGED <<val, childOb, ob, subs, targetStack, deps, newDeps,
                      depIds, newDepIds, value, dirty, active, queue, has,
                      waiting, flushing, elmText, updSince, lastRead>>
       /\ updCalls' = Zero /\ getCalls' = Zero /\ cbCalls' = Zero]_vars

\* NaN was written over NaN: b has a subscriber and none was notified
C3_Witness ==
  /\ lastAct.op = "write" /\ lastAct.f = "b" /\ lastAct.v = NaN
  /\ val["b"] = NaN
  /\ \E w \in Watchers : active[w] /\ w \in Range(subs["b"])
  /\ updCalls = Zero

Deferred(w) == ~IsLazy(w) /\ ~IsSync(w)

\* C4: a deferred watcher is not evaluated by the writes that notify it, it
\* is queued once however many writes notify it, and the flush evaluates it
\* exactly once when it was notified and not at all otherwise.
C4_OncePerFlush ==
  \A w \in Watchers : Deferred(w) =>
    /\ updSince[w] >= 1 => Count(w, queue) = 1 /\ w \in has
    /\ lastAct.op = "write" => getCalls[w] = 0
    /\ lastAct.op = "flush" =>
         getCalls[w] = (IF lastAct.upd[w] >= 1 THEN 1 ELSE 0)

\* a flush after two notifications of one watcher, which it evaluated once
C4_Witness ==
  /\ lastAct.op = "flush"
  /\ \E w \in Watchers : Deferred(w) /\ lastAct.upd[w] >= 2 /\ getCalls[w] = 1

\* what the render watcher's evaluator shows for the data as it is now
Shown ==
  LET r == ReadsOf(getter[4], val) IN val[r[Len(r)]]

\* C5: a write stores the new value at once and leaves the native tree as it
\* is; after the flush the native tree shows the data as last written.
C5_DeferredRender ==
  [][/\ LastWrite(lastAct') =>
          val'[lastAct'.f] = lastAct'.v /\ elmText' = elmText
     /\ lastAct'.op = "flush" => elmText' = Shown']_vars

\* the flush that follows a write read by the render watcher: the native
\* tree went from the text of construction to the value written
C5_Witness ==
  /\ lastAct.op = "flush" /\ lastAct.upd[4] >= 1
  /\ elmText = "1" /\ elmText = Shown

NotifiedOnce(n, d) == n = [x \in DepIds |-> IF x = d THEN 1 ELSE 0]

\* the elements of s that observe() gives an Observer: the objects that are
\* not frozen
ObjectsOf(s) == {s[i] : i \in {j \in DOMAIN s : CanObserve(s[j])}}

\* C11: a call of a patched array method on an observed array observes the
\* inserted elements and then calls notify() once on the array's Dep and on
\* no other: every watcher that read the field holding the array gets one
\* update(), and a watcher that is run by the notification already finds the
\* inserted elements observed.
C11_ArrayNotifiesOnce ==
  [][lastAct'.op = "array" =>
       /\ NotifiedOnce(notifyCalls', lastAct'.f)
       /\ ObjectsOf(lastAct'.args) \subseteq ob'
       /\ \A w \in Watchers : \A f \in Fields :
            (active[w] /\ val[f] = lastAct'.f /\ f \in lastRead[w])
              => updCalls'[w] = 1
       /\ \A w \in Watchers :
            (IsSync(w) /\ lastAct'.f \in lastRead'[w])
              => ObjectsOf(items'[lastAct'.f]) \subseteq lastRead'[w]]_vars

\* an object was pushed: it is observed, and the watchers of the field were
\* updated once
C11_Witness ==
  /\ lastAct.op = "array" /\ lastAct.v = "push"
  /\ "e1" \in Range(lastAct.args) /\ "e1" \in ob
  /\ notifyCalls[lastAct.f] = 1
  /\ \E w \in Watchers : ~IsSync(w) /\ updCalls[w] = 1
  /\ \E w \in Watchers : IsSync(w) /\ updCalls[w] = 1 /\ "e1" \in lastRead[w]

\* an observed plain object that is not the root data of a component
ObservedNonRoot(o) == o \in Objs /\ o \in ob /\ vmCount[o] = 0

\* C12: set() of a key absent from an observed non-root object makes the key
\* reactive and calls notify() once on the object's own Dep; del() of an own
\* key removes it and calls notify() once on that Dep; every watcher that
\* read the object through a reactive field gets update().
C12_SetDelNotify ==
  [][/\ (/\ lastAct'.op = "set" /\ ObservedNonRoot(lastAct'.f)
         /\ props[lastAct'.f][lastAct'.key] = absent) =>
          /\ props'[lastAct'.f][lastAct'.key] = lastAct'.v
          /\ lastAct'.key \in reactiveKeys'[lastAct'.f]
          /\ NotifiedOnce(notifyCalls', lastAct'.f)
          /\ \A w \in Watchers :
               (active[w] /\ lastAct'.f \in lastRead[w]) => updCalls'[w] = 1
     /\ (/\ lastAct'.op = "del" /\ ObservedNonRoot(lastAct'.f)
         /\ props[lastAct'.f][lastAct'.key] # absent) =>
          /\ props'[lastAct'.f][lastAct'.key] = absent
          /\ NotifiedOnce(notifyCalls', lastAct'.f)
          /\ \A w \in Watchers :
               (active[w] /\ lastAct'.f \in lastRead[w]) => updCalls'[w] = 1]_vars

\* k2 was added to the object held by field b: it is reactive and the
\* watchers of b were updated
C12_Witness ==
  /\ lastAct.op = "set" /\ lastAct.f = "o1" /\ lastAct.key = "k2"
  /\ "k2" \in reactiveKeys["o1"] /\ props["o1"]["k2"] = lastAct.v
  /\ notifyCalls["o1"] = 1
  /\ \E w \in Watchers : "o1" \in lastRead[w] /\ updCalls[w] = 1

\* the target is a component, or the root data of a live component
RootOrVm(o) == o = Vm \/ (o \in DOMAIN vmCount /\ vmCount[o] > 0)

\* C17: on a component or on the root data of a live component, set() of an
\* absent key and del() of a key warn once and do nothing else: no field, no
\* Observer, no subscriber list and no watcher changes and no Dep is notified.
C17_RootWarnOnly ==
  [][(/\ lastAct'.op \in {"set", "del"} /\ RootOrVm(lastAct'.f)
      /\ lastAct'.op = "set" => lastAct'.key \notin Fields) =>
       /\ warned' = 1
       /\ UNCHANGED <<val, childOb, ob, subs, items, props, reactiveKeys,
                      vmCount, deps, depIds, value, dirty, active, queue, has,
                      waiting, elmText, updSince, lastRead>>
       /\ \A d \in DepIds : notifyCalls'[d] = 0
       /\ updCalls' = Zero /\ getCalls' = Zero]_vars

\* del of a key the root data has: refused with a warning
C17_Witness ==
  /\ lastAct.op = "del" /\ lastAct.f = RootData /\ lastAct.key = "c"
  /\ warned = 1 /\ val["c"] = "0"
  /\ \A d \in DepIds : notifyCalls[d] = 0

(***************************************************************************)
(* Properties of the scheduler                                             *)
(***************************************************************************)
RunOf(w) == [ev |-> "run", w |-> w]

\* the position of the first entry e of the log, 0 if there is none
FirstAt(log, e) ==
  IF e \in Range(log) THEN IndexOf(log, e) ELSE 0

\* C14: a watcher that was torn down while it sat in the queue is skipped by
\* the flush: run() is reached, but neither its getter nor its callback is
\* called and its value stays as it was.
C14_TornDownSkipped ==
  [][lastAct'.op = "flush" =>
       \A w \in Range(queue) :
         ~active[w] => /\ getCalls'[w] = 0 /\ cbCalls'[w] = 0
                       /\ value'[w] = value[w]
                       /\ RunOf(w) \in Range(runLog')]_vars

\* the flush reached a user watcher that was unwatched while queued, and ran
\* another watcher
C14_Witness ==
  /\ lastAct.op = "flush" /\ ~isDestroyed
  /\ \E w \in Range(lastAct.args) :
       /\ ~active[w] /\ RunOf(w) \in Range(runLog) /\ getCalls[w] = 0
  /\ \E w \in Range(lastAct.args) : active[w] /\ getCalls[w] = 1

ErrorsOf(log, w, info) == Count([w |-> w, info |-> info], log)

\* C15: no exception of a user watcher leaves an action. Each time the getter
\* of a user watcher throws, and each time its callback throws, handleError
\* is called with the watcher and the place; the flush goes on: every active
\* watcher of the queue is evaluated and the queue is reset.
C15_UserErrorsHandled ==
  [][/\ thrown' # NoWatcher => ~IsUser(thrown')
     /\ \A w \in Watchers :
          IsUser(w) =>
            /\ (cbKind[w] = "throw")
                 => ErrorsOf(errLog', w, "callback") = cbCalls'[w]
            /\ (getter[w] = "a_throws" /\ val'["a"] = "1")
                 => ErrorsOf(errLog', w, "getter") = getCalls'[w]
     /\ lastAct'.op = "flush" =>
          /\ queue' = <<>> /\ ~flushing'
          /\ \A w \in Range(queue) : active[w] => getCalls'[w] >= 1]_vars

\* the getter of the user watcher 2 threw in a flush, and the render watcher,
\* which follows it, was evaluated
C15_Witness ==
  /\ lastAct.op = "flush"
  /\ errLog = <<[w |-> 2, info |-> "getter"]>>
  /\ thrown = NoWatcher
  /\ getCalls[4] = 1
  /\ FirstAt(runLog, RunOf(2)) < FirstAt(runLog, RunOf(4))

Requeues(log, w) == Count([ev |-> "requeued", w |-> w], log)
RunsOf(log, w) == Count(RunOf(w), log)

RunEvents(log) == SelectSeq(log, LAMBDA e : e.ev = "run")

KindOf(v) ==
  IF v.tag # NoTag THEN "element" ELSE IF v.isComment THEN "comment" ELSE "text"

\* whether the node stands for a component
IsComponent(v) == v.tag = "vue-component-1-c"

\* C20 as stated: sameVnode(a, b) holds if and only if a and b have equal
\* key, equal tag, equal kind and matching component-ness.
C20_AsStated ==
  svRes # "none" =>
    (svRes = "true" <=>
       /\ svA.key = svB.key
       /\ svA.tag = svB.tag
       /\ KindOf(svA) = KindOf(svB)
       /\ IsComponent(svA) = IsComponent(svB))

\* C20, amended: sameVnode(a, b) holds if and only if a and b have equal key
\* and either equal tag, equal kind, data defined on both or on neither and,
\* for input elements, the same type as read from data.attrs or two text
\* input types, or a is the placeholder of an async component whose factory
\* is that of b and has no error; nothing else influences the decision.
C20_SameVnode ==
  svRes # "none" =>
    (svRes = "true" <=>
       /\ svA.key = svB.key
       /\ \/ /\ svA.tag = svB.tag
             /\ KindOf(svA) = KindOf(svB)
             /\ svA.data = svB.data
             /\ svA.tag = "input" =>
                  \/ svA.itype = svB.itype
                  \/ {svA.itype, svB.itype} \subseteq TextInputTypes
          \/ /\ svA.isAsyncPlaceholder
             /\ svA.asyncFactory = svB.asyncFactory
             /\ ~FactoryError(svB.asyncFactory))

\* C20, witness: two inputs of different text types are the same node, and
\* they differ in nothing the claim names
C20_Witness ==
  /\ svRes = "true"
  /\ svA.tag = "input" /\ svB.tag = "input"
  /\ svA.itype = "text" /\ svB.itype = "number"

(***************************************************************************)
(* Properties of the renderer                                              *)
(***************************************************************************)
\* the sibling lists the last patch diffed: the children of the root
OldCh == prevVnode.children

NewCh == vnode.children

\* the last action patched the root against the tree rendered before
Diffed == prevVnode.def /\ vnode.def /\ ~isDestroyed /\ prevVnode.elm = vnode.elm

\* ch is a list of keyed element nodes with unique keys
KeyedElems(ch) ==
  /\ \A i \in DOMAIN ch : ch[i].tag # NoTag /\ ch[i].key # NoKey
  /\ \A i, j \in DOMAIN ch : i # j => ch[i].key # ch[j].key

HandlesOf(ch) == [i \in DOMAIN ch |-> ch[i].elm]

\* the entries of the log of the last patch with operation op on a handle in es
LogCount(op, es) == Cardinality({i \in DOMAIN plog : plog[i].op = op /\ plog[i].e \in es})

\* C6 as stated: for old and new sibling lists of keyed element nodes with
\* unique keys, after updateChildren the parent's native children are the
\* handles of the new list in its order, and every new node whose key occurs
\* in the old list carries the handle of that old node.
C6_AsStated ==
  (Diffed /\ KeyedElems(OldCh) /\ KeyedElems(NewCh)) =>
    /\ dom[vnode.elm] = HandlesOf(NewCh)
    /\ \A i \in DOMAIN NewCh : \A j \in DOMAIN OldCh :
         NewCh[i].key = OldCh[j].key => NewCh[i].elm = OldCh[j].elm

\* C6, amended: for old and new sibling lists of keyed element nodes with
\* unique keys, after updateChildren the parent's native children are the
\* handles of the new list in its order; every new node whose key occurs in
\* the old list on a node that sameVnode takes for the same node (same tag)
\* carries the handle of that old node, and a new node whose key occurs in
\* the old list on a different element gets a handle of its own.
C6_KeyedDiff ==
  (Diffed /\ KeyedElems(OldCh) /\ KeyedElems(NewCh)) =>
    /\ dom[vnode.elm] = HandlesOf(NewCh)
    /\ \A i \in DOMAIN NewCh : \A j \in DOMAIN OldCh :
         NewCh[i].key = OldCh[j].key =>
           IF SameVnode(OldCh[j], NewCh[i])
             THEN NewCh[i].elm = OldCh[j].elm
             ELSE NewCh[i].elm \notin Range(HandlesOf(OldCh))

\* C6, witness: two keyed lists of which the new one has a node of the old
\* one at another place, with its handle
C6_Witness ==
  /\ Diffed /\ KeyedElems(OldCh) /\ KeyedElems(NewCh)
  /\ \E i \in DOMAIN NewCh : \E j \in DOMAIN OldCh :
       /\ i # j
       /\ NewCh[i].key = OldCh[j].key
       /\ NewCh[i].elm = OldCh[j].elm
       /\ dom[vnode.elm][i] = OldCh[j].elm

\* the new list is a permutation of the old one: the same keys, the same tags
Permuted ==
  /\ Diffed /\ KeyedElems(OldCh) /\ KeyedElems(NewCh)
  /\ Len(OldCh) = Len(NewCh)
  /\ \A j \in DOMAIN OldCh : \E i \in DOMAIN NewCh :
       NewCh[i].key = OldCh[j].key /\ NewCh[i].tag = OldCh[j].tag

\* C7: diffing a keyed sibling list against a permutation of itself creates
\* no handle and removes none, it only moves handles, and every old handle
\* is reused by the new node with the same key.
C7_Permutation ==
  Permuted =>
    /\ LogCount("create", Elms) = 0
    /\ LogCount("insert", Elms) = 0
    /\ LogCount("remove", Elms) = 0
    /\ \A i \in DOMAIN NewCh : \A j \in DOMAIN OldCh :
         NewCh[i].key = OldCh[j].key => NewCh[i].elm = OldCh[j].elm

\* C7, witness: the rotation [A,B,C] -> [C,A,B], done by a move
C7_Witness ==
  /\ Permuted
  /\ Len(NewCh) = 3
  /\ \A i \in 1..3 : NewCh[i].key = OldCh[(i % 3) + 1].key
  /\ LogCount("move", Elms) > 0

\* the new list is the old one with the node at place i replaced by a node
\* with a new key
ReplacedAt(i) ==
  /\ Diffed /\ KeyedElems(OldCh) /\ KeyedElems(NewCh)
  /\ Len(OldCh) = Len(NewCh)
  /\ i \in DOMAIN NewCh
  /\ \A j \in DOMAIN OldCh : NewCh[i].key # OldCh[j].key
  /\ \A j \in DOMAIN NewCh : j # i => SameVnode(OldCh[j], NewCh[j])

\* C8: diffing a keyed list against one in which one element is replaced in
\* place by an element with a new key creates one handle of the list, for
\* the new key, removes one, that of the dropped key, and moves none.
C8_ReplaceInPlace ==
  \A i \in 1..(MaxLen + 1) :
    ReplacedAt(i) =>
      /\ LogCount("create", Range(HandlesOf(NewCh))) = 1
      /\ LogCount("create", {NewCh[i].elm}) = 1
      /\ LogCount("remove", Elms) = 1
      /\ LogCount("remove", {OldCh[i].elm}) = 1
      /\ LogCount("move", Elms) = 0
      /\ \A j \in DOMAIN NewCh : j # i => NewCh[j].elm = OldCh[j].elm

\* C8, witness: [A,B,C] -> [A,D,C]
C8_Witness ==
  /\ ReplacedAt(2)
  /\ Len(NewCh) = 3
  /\ LogCount("create", {NewCh[2].elm}) = 1

\* the last patch handed patchVnode two static nodes with equal keys: the
\* only child of the old root and the only child of the new one
StaticPair ==
  /\ Diffed
  /\ Len(OldCh) = 1 /\ Len(NewCh) = 1
  /\ OldCh[1].isStatic /\ NewCh[1].isStatic
  /\ OldCh[1].key = NewCh[1].key

\* the old handle is reused and the log has no hook, child diff or adapter
\* call on the subtree
StaticReused ==
  /\ NewCh[1].elm = OldCh[1].elm
  /\ LogCount("create", Elms) = 0
  /\ \A i \in DOMAIN plog :
       plog[i].e \notin Range(ElmsOf(OldCh[1])) \cup Range(ElmsOf(NewCh[1]))

\* C9 as stated: whenever patchVnode receives an old and a new node that are
\* both flagged static and have equal keys, it reuses the old handle and
\* returns without any update hook, child diff or adapter call on the subtree.
C9_AsStated == StaticPair => StaticReused

\* C9, amended: whenever patchVnode receives an old and a new node that are
\* both flagged static and have equal keys, the old node being no async
\* placeholder, and the new node is the old object itself, a clone
\* (isCloned) or marked once (isOnce), it reuses the old handle and returns
\* without any update hook, child diff or adapter call on the subtree.
C9_StaticReuse ==
  (/\ StaticPair
   /\ ~OldCh[1].isAsyncPlaceholder
   /\ \/ NewCh[1].isCloned
      \/ NewCh[1].isOnce
      \/ (NewCh[1].oid # 0 /\ NewCh[1].oid = OldCh[1].oid)) => StaticReused

\* C9, witness: the cached static tree, cloned, patched against a clone of it
C9_Witness ==
  /\ StaticPair
  /\ NewCh[1].isCloned
  /\ NewCh[1].data
  /\ NewCh[1].elm = OldCh[1].elm

\* the place in the log of the last patch of the destroy hooks of handle e,
\* 0 if they were not invoked
DestroyedAt(e) ==
  IF \E i \in DOMAIN plog : plog[i].op = "destroy" /\ plog[i].e = e
    THEN CHOOSE i \in DOMAIN plog : plog[i].op = "destroy" /\ plog[i].e = e
    ELSE 0

RECURSIVE ChildrenDestroyedFirst(_)
\* in the subtree v, no child's destroy hooks come after its parent's
ChildrenDestroyedFirst(v) ==
  \A i \in DOMAIN v.children :
    /\ (DestroyedAt(v.elm) # 0 /\ DestroyedAt(v.children[i].elm) # 0)
         => DestroyedAt(v.children[i].elm) < DestroyedAt(v.elm)
    /\ ChildrenDestroyedFirst(v.children[i])

RECURSIVE ParentDestroyedFirst(_)
\* in the subtree v, no child's destroy hooks come before its parent's
ParentDestroyedFirst(v) ==
  \A i \in DOMAIN v.children :
    /\ (DestroyedAt(v.elm) # 0 /\ DestroyedAt(v.children[i].elm) # 0)
         => DestroyedAt(v.elm) < DestroyedAt(v.children[i].elm)
    /\ ParentDestroyedFirst(v.children[i])

\* C10 as stated: when a node with a child subtree is torn down, no child's
\* destroy hook fires after the destroy hook of its parent.
C10_AsStated == prevVnode.def => ChildrenDestroyedFirst(prevVnode)

\* C10, amended: when a node with a child subtree is torn down, destroy hooks
\* are invoked depth-first, the parent first: no child's destroy hook fires
\* before the destroy hook of its parent.
C10_ParentFirst == prevVnode.def => ParentDestroyedFirst(prevVnode)

\* C10, witness: a node and a child of it were torn down by the last patch
C10_Witness ==
  /\ prevVnode.def
  /\ \E i \in DOMAIN OldCh : \E j \in DOMAIN OldCh[i].children :
       /\ DestroyedAt(OldCh[i].elm) # 0
       /\ DestroyedAt(OldCh[i].children[j].elm) # 0

\* a render that followed a mount threw: handleError was called for it
RerenderThrew(act, log, old) ==
  act.op = "update" /\ log # <<>> /\ old.def

\* the tree rendered before stays, no adapter call and no hook is made, the
\* native tree is as it was, and the error was handed to handleError
TreeRetained ==
  /\ vnode' = vnode /\ plog' = <<>> /\ dom' = dom
  /\ errLog'[1] = [w |-> 4, info |-> "render"]

\* C16 as stated: whenever the render function throws in a re-render, the
\* tree rendered before is the render result and nothing is patched
C16_AsStated ==
  [][RerenderThrew(lastAct', errLog', vnode) => TreeRetained]_vars

\* C16: when the render function throws in a re-render and the component has
\* no renderError function, or one that throws too, the tree rendered before
\* is the render result: the patch makes no adapter call, the native tree is
\* left as it was, and the error was handed to handleError.
C16_ErrorKeepsTree ==
  [][(RerenderThrew(lastAct', errLog', vnode) /\ lastAct'.v \in {"none", "throws"})
       => TreeRetained]_vars

\* a tree with children was rendered, then the render function threw
C16_Witness ==
  /\ RerenderThrew(lastAct, errLog, prevVnode) /\ lastAct.v = "none"
  /\ vnode = prevVnode /\ vnode.children # <<>> /\ plog = <<>>
  /\ errLog = <<[w |-> 4, info |-> "render"]>>


\* C23: notify() calls update() exactly once on each watcher that was in the
\* subscriber list of the Dep when notify() began, also when a reaction it
\* triggers (a sync watcher whose callback tears the watcher down) takes a
\* subscriber out of the list while notify() is walking it.
C23_NotifySnapshot ==
  [][Changes(lastAct', val) /\ thrown' = NoWatcher =>
       \A w \in Watchers : updCalls'[w] = Count(w, subs[lastAct'.f])]_vars

\* a write to a ran the sync watcher inline, its callback tore it down, which
\* took it out of the list of a, and the render watcher behind it in the
\* list was updated all the same
C23_Witness ==
  /\ lastAct.op = "write" /\ lastAct.f = "a"
  /\ cbKind[3] = "unwatch" /\ ~active[3] /\ cbCalls[3] = 1
  /\ updCalls[3] = 1 /\ updCalls[4] = 1
  /\ Count(3, subs["a"]) = 0 /\ Count(4, subs["a"]) = 1


ArrivedLate(log, i) ==
  /\ log[i].ev = "queued"
  /\ \E j \in 1..(i - 1) :
       /\ log[j].ev = "run" /\ log[j].w < log[i].w
       /\ \A m \in (j + 1)..(i - 1) : log[m].ev # "run"

\* the positions after i at which the watcher that arrived at i is run
RunsAfter(log, i) == {k \in (i + 1)..Len(log) : log[k] = RunOf(log[i].w)}

FirstRunAfter(log, i) ==
  CHOOSE k \in RunsAfter(log, i) : \A m \in RunsAfter(log, i) : k <= m

C26_AsStated ==
  \A w \in Watchers : ~active[w] => \A d \in DepIds : Count(w, subs[d]) = 0


\* the plain objects and arrays reachable from the root data through its
\* fields, the elements of its arrays and the keys of its objects
Reachable ==
  LET direct == {val[f] : f \in Fields} \cap AllObjs
  IN  direct
        \cup (UNION {Range(items[a]) : a \in direct \cap Arrays} \cap AllObjs)
        \cup (UNION {{props[o][k] : k \in PropKeys} : o \in direct \cap Objs}
                \cap AllObjs)

TvObservedOnce == \A n \in tvOb : tvVisits[n] <= 1

\* C28 as stated: traverse terminates on every value graph and walks the
\* elements of each collection at most once, so that no more calls of
\* _traverse are in progress than there are collections
C28_AsStated ==
  /\ \A n \in TvNodes : tvVisits[n] <= 1
  /\ Len(tvStack) <= Cardinality(TvNodes)


\* the old children of the range that share the key of new-start, or, when
\* it has no key, that are the same node as new-start
Matches ==
  {i \in lkStart..lkEnd :
     IF lkNode.key # NoKey THEN lkOld[i].key = lkNode.key
     ELSE SameVnode(lkNode, lkOld[i])}

Lowest(is) == CHOOSE i \in is : \A j \in is : i <= j
Highest(is) == CHOOSE i \in is : \A j \in is : i >= j

Remaining(u) == (u.oe - u.os + 1) + (u.ne - u.ns + 1)

\* an iteration moved at least one of the four cursors
CursorMoved ==
  \/ dfU'.os > dfU.os \/ dfU'.oe < dfU.oe
  \/ dfU'.ns > dfU.ns \/ dfU'.ne < dfU.ne

\* C29 as stated: the loop ends only with the old range or the new range
\* exhausted, after at most |old| + |new| iterations
C29_AsStated ==
  dfState \in {"ended", "threw"} =>
    /\ dfIters <= Len(dfU.oldCh) + Len(dfU.newCh)
    /\ dfU.os > dfU.oe \/ dfU.ns > dfU.ne

\* C29: the loop terminates for every pair of sibling lists; every iteration
\* that completes moves at least one cursor, there are never more than
\* |old| + |new| iterations, and the loop is left either with one of the two
\* ranges exhausted or by the exception of a lookup that lands on an old
\* child already moved away.
C29_Terminates ==
  /\ <>(dfState \in {"ended", "threw"})
  /\ [][DiffStep /\ dfState' = "loop" => CursorMoved]_vars
  /\ [](dfIters <= Len(dfU.oldCh) + Len(dfU.newCh))
  /\ [](dfState = "ended" => dfU.os > dfU.oe \/ dfU.ns > dfU.ne)
  /\ [](dfState = "threw" =>
          /\ dfU.os <= dfU.oe /\ dfU.ns <= dfU.ne
          /\ ~dfU.oldCh[IdxInOld(dfU, dfU.map)].def)

\* the loop ran MaxSib iterations, one of them through the lookup, and was
\* left with the new range exhausted and old children remaining
C29_Witness ==
  /\ dfState = "ended" /\ dfIters >= MaxSib /\ dfU.hasMap
  /\ dfU.ns > dfU.ne /\ dfU.os <= dfU.oe


\* the last update replaced the root node by a node that is not the same
Replaced ==
  /\ lastAct.op = "update" /\ vnode.def /\ prevVnode.def
  /\ vnode.elm # prevVnode.elm

\* the places of the log where op was done to the handle e
OpsAt(op, e) == {i \in DOMAIN plog : plog[i].op = op /\ plog[i].e = e}

\* whether the handle e is attached after the first k operations of the log,
\* being attached or not (was) before them
AttachedAfter(e, was, k) ==
  LET done == {i \in 1..k : plog[i].e = e /\ plog[i].op \in {"insert", "move", "remove"}}
  IN  IF done = {} THEN was
      ELSE plog[CHOOSE i \in done : \A j \in done : j <= i].op # "remove"

C22_DetachedOnLastListener ==
  rmRegistered > 0 =>
    /\ (ParentNode(rmP, rmElm) = NoElm) <=> (rmCalls >= rmRegistered)
    /\ Cardinality({i \in DOMAIN rmP.log :
                      rmP.log[i].op = "remove" /\ rmP.log[i].e = rmElm}) <= 1

\* a component placeholder was removed, a hook called back later, and the
\* callback was invoked more often than it had listeners
C22_Witness ==
  /\ rmRegistered = 2 * (Cardinality(Modules) + 1)
  /\ rmCalls > rmRegistered /\ rmOwed = {}
  /\ ParentNode(rmP, rmElm) = NoElm
  /\ \E i \in DOMAIN rmP.log : rmP.log[i] = [op |-> "remove", e |-> rmElm]


\* the getter of the lazy watcher w was invoked by the last operation and
\* threw
FailedEval(w) ==
  /\ IsLazy(w) /\ getCalls[w] > 0
  /\ getter[w] = "a_throws" /\ val["a"] = "1"

\* how often the last operation read the computed property that w backs:
\* directly, or in the evaluator of another watcher
ComputedReads(w) ==
  (IF lastAct.op = "computed" /\ lastAct.w = w THEN 1 ELSE 0)
    + (IF Computed \in Range(ReadsOf(getter[4], val)) THEN getCalls[4] ELSE 0)
    + (IF Computed \in Range(ReadsOf(getter[3], val)) THEN getCalls[3] ELSE 0)
    + (IF Computed \in Range(ReadsOf(getter[2], val)) THEN getCalls[2] ELSE 0)

\* C31 as stated: after a failed evaluation the getter of the watcher is
\* invoked again only by a write to one of its dependencies
C31_AsStated ==
  [][\A w \in Watchers :
       FailedEval(w) /\ getCalls'[w] > 0 => lastAct'.op = "write"]_vars

\* C31: a lazy watcher whose evaluation threw stays dirty, and nothing
\* retries it: its getter is invoked only when the computed property it
\* backs is read, once per read, be it a direct read or the read of another
\* watcher's evaluator (which a write to a dependency triggers).
C31_NoProactiveRetry ==
  [][\A w \in Watchers :
       /\ FailedEval(w)' => dirty'[w]
       /\ IsLazy(w) => getCalls'[w] <= ComputedReads(w)']_vars

\* the computed property threw when it was read, and the re-render of the
\* next flush, which reads it, invoked the getter again: it threw again
C31_Witness ==
  /\ FailedEval(1) /\ dirty[1] /\ lastAct.op = "flush"
  /\ getter[4] = "a_k_b" /\ getCalls[4] = 1 /\ getCalls[1] = 1
  /\ ErrorsOf(errLog, 4, "render") = 1


\* C32: the ids of the watchers strictly increase in the order of their
\* creation, and in the tree that mounting builds the render watcher of
\* every component has a smaller id than the render watcher of each of its
\* descendants that is mounted.
C32_ParentIdFirst ==
  /\ \A i, j \in DOMAIN mtCreated : i < j => mtCreated[i] < mtCreated[j]
  /\ \A d \in Vms : mtRenderId[d] # 0 =>
       \A a \in Ancestors(mtParent, d) :
         mtRenderId[a] # 0 /\ mtRenderId[a] < mtRenderId[d]

\* a chain of three components is mounted, and the component with the
\* greatest number is not the one mounted last
C32_Witness ==
  /\ mtStack = <<>> /\ \A c \in Vms : mtRenderId[c] # 0
  /\ \E c \in Vms : Cardinality(Ancestors(mtParent, c)) >= 2
  /\ \E c, d \in Vms : c < d /\ mtRenderId[c] > mtRenderId[d]
  /\ \E c \in Vms : mtOthers[c] = 1


\* C33: no evaluation being in progress, an active watcher is among the
\* subscribers of a Dep exactly when the Dep is among its deps, it is there
\* once, deps and depIds agree, and its newDeps and newDepIds are empty.
C33_SubscriptionSymmetry ==
  targetStack = <<>> =>
    \A w \in Watchers : active[w] =>
      /\ \A d \in DepIds :
           /\ Count(w, subs[d]) <= 1
           /\ (Count(w, subs[d]) = 1) <=> (d \in Range(deps[w]))
      /\ depIds[w] = Range(deps[w])
      /\ newDeps[w] = <<>> /\ newDepIds[w] = {}

\* the sync watcher was re-evaluated by the write of a: it left the
\* subscribers of one field and joined those of another, while another
\* watcher was torn down
C33_Witness ==
  /\ lastAct.op = "write" /\ getCalls[3] = 1 /\ active[3]
  /\ \E d \in DepIds : d \in Range(deps[3]) /\ Count(3, subs[d]) = 1
  /\ \E d \in DepIds : d \notin Range(deps[3]) /\ Count(3, subs[d]) = 0
  /\ \E w \in Watchers : ~active[w]
  /\ Len(deps[3]) = 2

(***************************************************************************)
(* C34: a computed property read by a watcher after a write                *)
(***************************************************************************)
\* the result of the getter of the computed property k on the present state:
\* "ca" reads c, then a, which is its value
FreshK == val["a"]

\* watcher w, whose evaluator returns what it read from k, evaluated in the
\* step that a write or a flush made
ReadK(w) ==
  /\ getter[w] = "a_k" /\ getter[1] = "ca" /\ active[w]
  /\ lastAct.op \in {"write", "flush"} /\ getCalls[w] > 0

\* C34: whenever the evaluator of a watcher (queued or sync) reads a computed
\* property after a write to one of its dependencies, the value returned is
\* the result of the computed getter on the state after the write, whatever
\* the order in which the watchers subscribed to the written field.
C34_NeverStale == \A w \in Watchers : ReadK(w) => value[w] = FreshK

\* the sync watcher, notified before the watcher of k, is handed the value
\* that k cached before the write
C34_StaleRead ==
  /\ ReadK(3) /\ lastAct.op = "write" /\ lastAct.f = "a"
  /\ subs["a"][1] = 3 /\ value[3] # FreshK /\ dirty[1] /\ getCalls[1] = 0

(***************************************************************************)
(* C35: updateChildren partitions the old children                         *)
(***************************************************************************)
\* the last action diffed the children of the root against a freshly rendered
\* list (a render that throws has the old tree patched against itself, which
\* patchVnode leaves at once), both lists being keyed with unique keys
KeyedDiff ==
  Diffed /\ lastAct.op = "update" /\ lastAct.v = "-"
    /\ KeyedElems(OldCh) /\ KeyedElems(NewCh)

\* the new children that carry the handle of old child j
ReusedBy(j) == {i \in DOMAIN NewCh : NewCh[i].elm = OldCh[j].elm}

\* how often the last patch took the handle of old child j off its parent
RemovedTimes(j) == LogCount("remove", {OldCh[j].elm})

\* the key of old child j is on a new child of another tag
Retagged(j) ==
  \E i \in DOMAIN NewCh :
    NewCh[i].key = OldCh[j].key /\ NewCh[i].tag # OldCh[j].tag

\* C35: for sibling lists with unique keys, every old child is either reused
\* by exactly one new child (patched, once, unless it is a static tree, which
\* patchVnode only hands over; its handle kept in the parent) or removed
\* exactly once, never both and never neither; an old child whose key
\* is on a new child of a different tag is not reused and is removed, after
\* every new handle was created.
C35_Partition ==
  KeyedDiff =>
    \A j \in DOMAIN OldCh :
      /\ Cardinality(ReusedBy(j)) + RemovedTimes(j) = 1
      /\ ReusedBy(j) # {} =>
            /\ ~OldCh[j].isStatic => LogCount("update", {OldCh[j].elm}) = 1
            /\ OldCh[j].elm \in Range(dom[vnode.elm])
            /\ \A i \in ReusedBy(j) : SameVnode(OldCh[j], NewCh[i])
      /\ RemovedTimes(j) = 1 => OldCh[j].elm \notin Range(dom[vnode.elm])
      /\ Retagged(j) =>
            /\ ReusedBy(j) = {} /\ RemovedTimes(j) = 1
            /\ \A m, n \in DOMAIN plog :
                 (plog[m].op = "remove" /\ plog[m].e = OldCh[j].elm
                    /\ plog[n].op = "create") => n < m

\* an old <span key=1> against a new <div key=1>: the span is removed, the
\* other old child is reused
C35_Witness ==
  /\ KeyedDiff
  /\ \E j, k \in DOMAIN OldCh :
       /\ Retagged(j) /\ RemovedTimes(j) = 1 /\ ReusedBy(j) = {}
       /\ j # k /\ ReusedBy(k) # {} /\ RemovedTimes(k) = 0

(***************************************************************************)
(* C36: $destroy called again from its own hooks                           *)
(***************************************************************************)
\* C36: for any sequence of $destroy() calls on one instance, including the
\* calls its own beforeDestroy or destroyed hook makes, each of the two hooks
\* runs at most once and every call returns without exhausting the stack.
C36_HooksOnce ==
  /\ \A vm \in Insts : \A h \in DestroyHooks : lf.calls[vm][h] <= 1
  /\ ~lf.overflow

\* the beforeDestroy hook called $destroy: the flag _isBeingDestroyed was
\* not set yet, and the hook ran again
C36_Reentered ==
  /\ lfOpts.reenter = "beforeDestroy"
  /\ \E vm \in Insts : lf.calls[vm]["beforeDestroy"] > 1 /\ lf.calls[vm]["destroyed"] > 1
  /\ lf.overflow

(***************************************************************************)
(* C37, C38: activation of kept-alive trees                                *)
(***************************************************************************)
\* the activation hooks of instance c: the last one before the operation,
\* then those of the operation
Activations(c) ==
  (IF lf.last[c] = "none" THEN <<>> ELSE <<[vm |-> c, hook |-> lf.last[c]]>>)
    \o ActivationsOf(lf, c)

\* C37: for any sequence of activateChildComponent and
\* deactivateChildComponent calls, direct or recursive, the hooks "activated"
\* and "deactivated" of an instance alternate: the same hook never fires
\* twice in a row on one instance.
C37_Alternate ==
  \A c \in Insts : \A i \in 1..(Len(Activations(c)) - 1) :
    Activations(c)[i].hook # Activations(c)[i + 1].hook

\* an instance was deactivated with its parent, which was activated, and
\* then activated again with it
C37_Witness ==
  \E c \in Insts :
    /\ lfParent[c] # NoVm /\ c \notin lfOpts.keepAlive
    /\ lf.last[c] = "deactivated"
    /\ lf.hooks = <<[vm |-> c, hook |-> "activated"],
                    [vm |-> lfParent[c], hook |-> "activated"]>>

Cached == {c \in CacheKeys : kaCache[c] # NoVnode}

\* C39: with a fixed max, a render that misses the cache and raises the
\* number of cached keys above max evicts exactly one entry, the one
\* rendered longest ago (keys[0], a hit making its key the freshest); after
\* every render at most max entries are cached, and keys holds exactly the
\* keys that have an entry, without duplicates.
C39_EvictsOldest ==
  [][/\ Len(kaKeys') <= kaProps'.max
     /\ Range(kaKeys') = Cached'
     /\ \A i, j \in DOMAIN kaKeys' : i # j => kaKeys'[i] # kaKeys'[j]
     /\ kaKeys' = kaSeen'
     /\ kaLast'.op = "render" =>
          /\ (kaLast'.kind = "miss" /\ Len(kaKeys) = kaProps.max) =>
                /\ Len(kaLast'.drops) = 1
                /\ kaLast'.drops[1].key = Head(kaSeen)
                /\ kaKeys' = Append(Tail(kaKeys), kaLast'.key)
          /\ (kaLast'.kind = "miss" /\ Len(kaKeys) < kaProps.max) =>
                kaLast'.drops = <<>> /\ kaKeys' = Append(kaKeys, kaLast'.key)
          /\ kaLast'.kind = "hit" =>
                /\ kaLast'.drops = <<>>
                /\ kaKeys' = Append(RemoveItem(kaKeys, kaLast'.key), kaLast'.key)
          /\ kaLast'.kind = "plain" => kaKeys' = kaKeys]_vars

\* the cache of a keep-alive with max 2 was full, a render missed it and
\* one entry was evicted
C39_Witness ==
  /\ kaProps.max = 2 /\ Len(kaKeys) = 2
  /\ kaLast.op = "render" /\ kaLast.kind = "miss"
  /\ Len(kaLast.drops) = 1 /\ kaLast.drops[1].key \notin Cached
  /\ kaKeys[2] = kaLast.key

\* C40: whenever an entry is dropped from the cache (overflow of max, change
\* of include or exclude, or destruction of the keep-alive), its instance is
\* destroyed unless it is the instance the keep-alive renders; no dropped
\* instance other than the current one is left alive.
C40_DroppedDestroyed ==
  \A i \in DOMAIN kaLast.drops :
    kaLast.drops[i].inst \notin {kaLast.drops[i].current, kaVnode.inst}
      => kaLast.drops[i].inst \in kaDead

\* an entry was evicted whose placeholder has the tag of the placeholder
\* rendered, being another instance of the same component: it was dropped
\* and not destroyed
C40_Leaked ==
  /\ kaLast.op = "render" /\ Len(kaLast.drops) = 1
  /\ kaLast.drops[1].inst \notin {kaLast.drops[1].current, kaVnode.inst}
  /\ kaLast.drops[1].inst \notin kaDead
  /\ kaCache[kaLast.drops[1].key] = NoVnode

====
